---- MODULE Spec2Model ----
(***************************************************************************)
(* The free-text search engine of FA-Nexus (scripts/search/search-manager): *)
(* tokenizeQuery, parseQueryAST, evaluateExpression, scoreMatch, matches    *)
(* and NexusSearchManager.filter.                                           *)
(*                                                                          *)
(* A JavaScript string is a sequence of one-character strings:              *)
(* "cat" is <<"c", "a", "t">>.  A missing (undefined) or empty string field *)
(* of a record is the empty sequence; both are falsy in the source.         *)
(***************************************************************************)
EXTENDS Integers, Sequences, FiniteSets, TLC

VARIABLES
    items,      \* the record list handed to filter
    query,      \* the query string
    out,        \* the list filter returned for (items, query)
    again,      \* the list filter returned for (out, query)
    verdicts,   \* matches(items[i], query) for every i
    singles,    \* filter(<<items[i]>>, query) for every i
    words,      \* the words a, b, c a composed query is built from
    each,       \* matches(record, w) for each of the three words alone
    shape,      \* which composed query was evaluated
    verdict,    \* matches(record, query) for the composed query
    toks,       \* tokenizeQuery(query) for the composed query
    pc,         \* position of the caller
    cursor,     \* parseQueryAST: its variable index, the cursor into the tokens
    stack,      \* parseQueryAST: the productions in progress, innermost last
    ret,        \* parseQueryAST: the node the last finished production returned
    calls,      \* parseQueryAST: how many productions have been entered
    rest,       \* tokenizeQuery: the lexemes of rawTokens not yet visited
    pendingNegation,    \* tokenizeQuery: the flag of that name
    heap,       \* the arrays that exist, by reference
    given,      \* the reference of the array handed to filter
    result,     \* the reference filter returned
    scores      \* scoreMatch(items[i], tree of the query) for every i

stepVars == <<cursor, stack, ret, calls>>

scanVars == <<rest, pendingNegation>>

heapVars == <<heap, given, result>>

scoreVars == <<scores>>

vars == <<items, query, out, again, verdicts, singles, words, each, shape,
          verdict, toks, pc, stepVars, scanVars, heapVars, scoreVars>>

(***************************************************************************)
(* Characters and the string primitives of the host language.               *)
(***************************************************************************)
LowerLetters == <<"a","b","c","d","e","f","g","h","i","j","k","l","m",
                  "n","o","p","q","r","s","t","u","v","w","x","y","z">>
UpperLetters == <<"A","B","C","D","E","F","G","H","I","J","K","L","M",
                  "N","O","P","Q","R","S","T","U","V","W","X","Y","Z">>
Digits == <<"0","1","2","3","4","5","6","7","8","9">>

Range(s) == {s[i] : i \in 1..Len(s)}

LowerSet == Range(LowerLetters)
UpperSet == Range(UpperLetters)
DigitSet == Range(Digits)

\* \s of the regular expressions and the characters String.prototype.trim strips:
\* space, tab, line feed, carriage return, form feed and vertical tab.  Strings
\* of the model are ASCII, so the white space beyond ASCII (U+00A0, U+1680,
\* U+2000 to U+200A, U+2028, U+2029, U+202F, U+205F, U+3000, U+FEFF) has no
\* character here.
WhiteSpace == {" ", "\t", "\n", "\r", "\f", ""}

LowerOf == [c \in UpperSet |-> LowerLetters[CHOOSE i \in 1..26 : UpperLetters[i] = c]]

LowerChar(c) == IF c \in UpperSet THEN LowerOf[c] ELSE c

\* String.prototype.toLowerCase
toLowerCase(s) == [i \in 1..Len(s) |-> LowerChar(s[i])]

\* s.slice(n) for 0 <= n
DropFirst(s, n) == SubSeq(s, n + 1, Len(s))

\* s.slice(0, -n) for 0 <= n
DropLast(s, n) == SubSeq(s, 1, Len(s) - n)

RECURSIVE LeadingCount(_, _)
\* the number of leading characters of s that are in set cs
LeadingCount(s, cs) ==
    IF s = <<>> \/ s[1] \notin cs THEN 0 ELSE 1 + LeadingCount(Tail(s), cs)

RECURSIVE TrailingCount(_, _)
TrailingCount(s, cs) ==
    IF s = <<>> \/ s[Len(s)] \notin cs THEN 0
    ELSE 1 + TrailingCount(DropLast(s, 1), cs)

\* String.prototype.trim
trim(s) ==
    LET a == LeadingCount(s, WhiteSpace)
        t == DropFirst(s, a)
    IN  DropLast(t, TrailingCount(t, WhiteSpace))

\* h.startsWith(v) at 0-based offset i
OccursAt(h, v, i) ==
    /\ i + Len(v) <= Len(h)
    /\ \A k \in 1..Len(v) : h[i + k] = v[k]

\* String.prototype.indexOf: the first 0-based index of v in h, or -1
indexOf(h, v) ==
    LET hits == {i \in 0..(Len(h) - Len(v)) : OccursAt(h, v, i)}
    IN  IF hits = {} THEN -1 ELSE CHOOSE i \in hits : \A j \in hits : i <= j

\* String.prototype.includes
includes(h, v) == \E i \in 0..(Len(h) - Len(v)) : OccursAt(h, v, i)

\* Array.prototype.join(' ') on an array of strings
RECURSIVE joinSpace(_)
joinSpace(parts) ==
    IF parts = <<>> THEN <<>>
    ELSE IF Len(parts) = 1 THEN parts[1]
    ELSE parts[1] \o <<" ">> \o joinSpace(Tail(parts))

(***************************************************************************)
(* Tokenizer.                                                               *)
(***************************************************************************)
\* the 0-based index of the first c in s at or after index from, or -1
NextIndexOf(s, c, from) ==
    LET hits == {i \in from..(Len(s) - 1) : s[i + 1] = c}
    IN  IF hits = {} THEN -1 ELSE CHOOSE i \in hits : \A j \in hits : i <= j

\* a pattern that also takes a quoted span that follows leading dashes
TokenPatternDashedQuote(q, i) ==
    LET c == q[i + 1]
        close == NextIndexOf(q, c, i + 1)
        dashes == LeadingCount(DropFirst(q, i), {"-"})
        opening == i + dashes
        shut == IF opening < Len(q) THEN NextIndexOf(q, q[opening + 1], opening + 1) ELSE -1
    IN  IF c \in {"(", ")"} THEN 1
        ELSE IF c \in {"'", "\""} /\ close # -1 THEN close - i + 1
        ELSE IF dashes > 0 /\ opening < Len(q) /\ q[opening + 1] \in {"'", "\""} /\ shut # -1
            THEN shut - i + 1
        ELSE LeadingCount(DropFirst(q, i), {x \in Range(q) : x \notin WhiteSpace \cup {"(", ")"}})

\* TOKEN_PATTERN tried at 0-based index i: the length of the lexeme matched
\* there, 0 when no alternative matches.  The alternatives are tried in the
\* order of the pattern:  \(  \)  '[^']*'  "[^"]*"  [^\s()]+
TokenPatternAt(q, i) ==
    LET c == q[i + 1]
        close == NextIndexOf(q, c, i + 1)
    IN  IF c \in {"(", ")"} THEN 1
        ELSE IF c \in {"'", "\""} /\ close # -1 THEN close - i + 1
        ELSE LeadingCount(DropFirst(q, i), {x \in Range(q) : x \notin WhiteSpace \cup {"(", ")"}})

RECURSIVE MatchAll(_, _)
\* String(query).match(TOKEN_PATTERN) || [] : the global scan from index i
MatchAll(q, i) ==
    IF i >= Len(q) THEN <<>>
    ELSE LET n == TokenPatternAt(q, i)
         IN  IF n = 0 THEN MatchAll(q, i + 1)
             ELSE <<SubSeq(q, i + 1, i + n)>> \o MatchAll(q, i + n)

\* a TERM token that loses its negation flag
TermTokenNeverNegated(value, exact, negated) ==
    [type |-> "TERM", value |-> value, exact |-> exact, negated |-> FALSE]

TermToken(value, exact, negated) ==
    [type |-> "TERM", value |-> value, exact |-> exact, negated |-> negated]

OpToken(type) == [type |-> type]

\* n copies of the token { type }
Repeat(type, n) == [i \in 1..n |-> OpToken(type)]

\* /^'[^']*'$/.test(tok) || /^"[^"]*"$/.test(tok)
IsQuoted(tok) ==
    /\ Len(tok) >= 2
    /\ tok[1] \in {"'", "\""}
    /\ tok[Len(tok)] = tok[1]
    /\ \A k \in 2..(Len(tok) - 1) : tok[k] # tok[1]

\* a negation that is never deferred
NeverTooShort(negated, text) == FALSE

\* negated && text.length < 2: the negation waits for more characters
TooShortToNegate(negated, text) == negated /\ Len(text) < 2

\* a lexeme that is negated by its own dashes only
StartsNegatedByDashOnly(pending, dashes) == dashes > 0

\* let negated = pendingNegation; while (tok.startsWith('-')) negated = true
StartsNegated(pending, dashes) == pending \/ dashes > 0

\* a keyword that is an operator whether or not it is negated
IsOperatorWordEvenNegated(negated, value, word) == value = word

\* !negated && /^word$/i.test(tok), value being the lowercased tok
IsOperatorWord(negated, value, word) == ~negated /\ value = word

\* a quoted span that counts as text even when nothing is inside
AlwaysText(inner) == TRUE

\* if (inner): the inner text of a quoted span is not the empty string
HasText(inner) == inner # <<>>

\* One iteration of the for loop of tokenizeQuery: st is (tokens, pendingNegation)
TokenizeStep(st, raw) ==
    LET tok0 == trim(raw)
        dashes == LeadingCount(tok0, {"-"})
        negated1 == StartsNegated(st.pendingNegation, dashes)
        tok1 == DropFirst(tok0, dashes)
        lparens == LeadingCount(tok1, {"("})
        opened == st.tokens
                    \o (IF lparens > 0 /\ negated1 THEN <<OpToken("NOT")>> ELSE <<>>)
                    \o Repeat("LPAREN", lparens)
        negated == negated1 /\ lparens = 0
        tok2 == DropFirst(tok1, lparens)
        trailingParens == TrailingCount(tok2, {")"})
        tok == DropLast(tok2, trailingParens)
        closing == Repeat("RPAREN", trailingParens)
        inner == toLowerCase(trim(SubSeq(tok, 2, Len(tok) - 1)))
        value == toLowerCase(tok)
    IN  IF tok0 = <<>> THEN st
        ELSE IF tok0 = <<"-">> THEN [st EXCEPT !.pendingNegation = TRUE]
        ELSE IF tok1 = <<>> THEN [st EXCEPT !.pendingNegation = negated1]
        ELSE IF tok = <<>> THEN
            [tokens |-> opened \o closing, pendingNegation |-> FALSE]
        ELSE IF IsQuoted(tok) THEN
            IF HasText(inner) THEN
                IF ~TooShortToNegate(negated, inner) THEN
                    [tokens |-> opened \o <<TermToken(inner, TRUE, negated)>> \o closing,
                     pendingNegation |-> FALSE]
                ELSE [tokens |-> opened \o closing, pendingNegation |-> TRUE]
            ELSE [tokens |-> opened \o closing, pendingNegation |-> negated]
        ELSE IF IsOperatorWord(negated, value, <<"a", "n", "d">>) THEN
            [tokens |-> opened \o <<OpToken("AND")>> \o closing, pendingNegation |-> FALSE]
        ELSE IF IsOperatorWord(negated, value, <<"o", "r">>) THEN
            [tokens |-> opened \o <<OpToken("OR")>> \o closing, pendingNegation |-> FALSE]
        ELSE IF IsOperatorWord(negated, value, <<"n", "o", "t">>) THEN
            [tokens |-> opened \o <<OpToken("NOT")>> \o closing, pendingNegation |-> FALSE]
        ELSE IF TooShortToNegate(negated, value) THEN
            [tokens |-> opened \o closing, pendingNegation |-> TRUE]
        ELSE [tokens |-> opened \o <<TermToken(value, FALSE, negated)>> \o closing,
              pendingNegation |-> FALSE]

RECURSIVE TokenizeLoop(_, _)
TokenizeLoop(st, rawTokens) ==
    IF rawTokens = <<>> THEN st
    ELSE TokenizeLoop(TokenizeStep(st, Head(rawTokens)), Tail(rawTokens))

tokenizeQuery(q) ==
    TokenizeLoop([tokens |-> <<>>, pendingNegation |-> FALSE], MatchAll(q, 0)).tokens

(***************************************************************************)
(* Parser.  The closure variable index of parseQueryAST is threaded through *)
(* the productions: each returns the node it built and the index reached.   *)
(* index is 0-based as in the source; tokens[index] is tokens[index + 1]    *)
(* here.                                                                    *)
(***************************************************************************)
Null == [kind |-> "NULL"]

TermNode(tok) == [kind |-> "TERM", token |-> tok]
NotNode(operand) == [kind |-> "NOT", operand |-> operand]

Parsed(node, index) == [node |-> node, index |-> index]

\* peek(): the type of tokens[index], "NONE" when there is no such token
PeekType(tokens, index) ==
    IF index < Len(tokens) THEN tokens[index + 1].type ELSE "NONE"

\* a combine that gives null unless both sides are there
combineBothOrNothing(left, right, kind) ==
    IF left.kind = "NULL" \/ right.kind = "NULL" THEN [kind |-> "NULL"]
    ELSE [kind |-> kind, left |-> left, right |-> right]

combine(left, right, kind) ==
    IF left.kind = "NULL" THEN right
    ELSE IF right.kind = "NULL" THEN left
    ELSE [kind |-> kind, left |-> left, right |-> right]

\* a negation that is dropped only when its operand is missing
IsMissingOperand(operand) == operand.kind = "NULL"

\* !operand || (operand.kind === 'TERM' && (!operand.token?.value ||
\* operand.token.value.length < 2))
IsMalformedOperand(operand) ==
    \/ operand.kind = "NULL"
    \/ operand.kind = "TERM" /\ Len(operand.token.value) < 2

\* a group that counts only when its closing parenthesis is there
closeGroupStrictly(expr, closed, index) ==
    IF closed THEN [node |-> expr, index |-> index + 1]
    ELSE [node |-> [kind |-> "NULL"], index |-> index]

\* if (peek() && peek().type === 'RPAREN') consume(); return expr;
closeGroup(expr, closed, index) ==
    [node |-> expr, index |-> IF closed THEN index + 1 ELSE index]

RECURSIVE parseOr(_, _), parseOrLoop(_, _, _), parseAnd(_, _),
          parseAndLoop(_, _, _), parseUnary(_, _), parsePrimary(_, _)

parseOr(tokens, index) ==
    LET first == parseAnd(tokens, index)
    IN  parseOrLoop(tokens, first.node, first.index)

\* an OR whose right operand is a single unary instead of a whole AND chain
parseOrLoopUnaryOperand(tokens, node, index) ==
    IF PeekType(tokens, index) # "OR" THEN Parsed(node, index)
    ELSE LET right == parseUnary(tokens, index + 1)
         IN  parseOrLoop(tokens, combine(node, right.node, "OR"), right.index)

parseOrLoop(tokens, node, index) ==
    IF PeekType(tokens, index) # "OR" THEN Parsed(node, index)
    ELSE LET right == parseAnd(tokens, index + 1)
         IN  parseOrLoop(tokens, combine(node, right.node, "OR"), right.index)

parseAnd(tokens, index) ==
    LET first == parseUnary(tokens, index)
    IN  parseAndLoop(tokens, first.node, first.index)

\* an AND chain that continues on an explicit AND token only
parseAndLoopExplicitOnly(tokens, node, index) ==
    LET right == parseUnary(tokens, index + 1)
    IN  IF PeekType(tokens, index) = "AND" THEN
            IF right.node.kind = "NULL" THEN Parsed(node, right.index)
            ELSE parseAndLoop(tokens, combine(node, right.node, "AND"), right.index)
        ELSE Parsed(node, index)

parseAndLoop(tokens, node, index) ==
    LET type == PeekType(tokens, index)
        right == parseUnary(tokens, IF type = "AND" THEN index + 1 ELSE index)
    IN  IF type \in {"AND", "TERM", "NOT", "LPAREN"} THEN
            IF right.node.kind = "NULL" THEN Parsed(node, right.index)
            ELSE parseAndLoop(tokens, combine(node, right.node, "AND"), right.index)
        ELSE Parsed(node, index)

parseUnary(tokens, index) ==
    IF PeekType(tokens, index) = "NONE" THEN Parsed(Null, index)
    ELSE IF PeekType(tokens, index) = "NOT" THEN
        LET r == parseUnary(tokens, index + 1)
            operand == r.node
        IN  IF IsMalformedOperand(operand) THEN Parsed(Null, r.index)
            ELSE Parsed(NotNode(operand), r.index)
    ELSE parsePrimary(tokens, index)

parsePrimary(tokens, index) ==
    LET type == PeekType(tokens, index)
        tok == tokens[index + 1]
        inside == parseOr(tokens, index + 1)
    IN  IF type = "NONE" THEN Parsed(Null, index)
        ELSE IF type = "TERM" THEN
            Parsed(IF tok.negated THEN NotNode(TermNode(tok)) ELSE TermNode(tok), index + 1)
        ELSE IF type = "LPAREN" THEN
            closeGroup(inside.node, PeekType(tokens, inside.index) = "RPAREN", inside.index)
        ELSE Parsed(Null, index + 1)

parseQueryAST(tokens) == parseOr(tokens, 0).node

(***************************************************************************)
(* Evaluator.                                                               *)
(***************************************************************************)
\* WORD_BOUNDARY_RE.test(ch) for a single character ch: /[^a-z0-9]/
IsBoundaryChar(ch) == ch \notin LowerSet \cup DigitSet

\* new RegExp(`(?:^|[^a-z0-9])${escapeRegExp(value)}(?:$|[^a-z0-9])`) tried
\* with the match starting at 0-based index start: the first group takes no
\* character at the start of the string or one boundary character, then the
\* literal value, then the end of the string or one boundary character.
ExactPatternAt(haystack, value, start) ==
    \E lead \in {0, 1} :
        /\ IF lead = 0 THEN start = 0
           ELSE start < Len(haystack) /\ IsBoundaryChar(haystack[start + 1])
        /\ OccursAt(haystack, value, start + lead)
        /\ LET stop == start + lead + Len(value)
           IN  stop = Len(haystack) \/ IsBoundaryChar(haystack[stop + 1])

\* an exact term matched as a plain substring
haystackIncludesTermAnywhere(haystack, token) ==
    IF token.type # "TERM" \/ token.value = <<>> THEN FALSE
    ELSE includes(haystack, token.value)

haystackIncludesTerm(haystack, token) ==
    IF token.type # "TERM" \/ token.value = <<>> THEN FALSE
    ELSE IF ~token.exact THEN includes(haystack, token.value)
    ELSE \E start \in 0..Len(haystack) : ExactPatternAt(haystack, token.value, start)

RECURSIVE evaluateExpression(_, _)
evaluateExpression(node, haystack) ==
    IF node.kind = "TERM" THEN haystackIncludesTerm(haystack, node.token)
    ELSE IF node.kind = "AND" THEN
        evaluateExpression(node.left, haystack) /\ evaluateExpression(node.right, haystack)
    ELSE IF node.kind = "OR" THEN
        evaluateExpression(node.left, haystack) \/ evaluateExpression(node.right, haystack)
    ELSE IF node.kind = "NOT" THEN ~evaluateExpression(node.operand, haystack)
    ELSE TRUE

RECURSIVE collectThroughNot(_, _)
\* a walk that keeps the polarity under a NOT node
collectThroughNot(node, negated) ==
    IF node.kind = "TERM" THEN (IF ~negated THEN <<node.token>> ELSE <<>>)
    ELSE IF node.kind \in {"AND", "OR"} THEN
        collectThroughNot(node.left, negated) \o collectThroughNot(node.right, negated)
    ELSE IF node.kind = "NOT" THEN collectThroughNot(node.operand, negated)
    ELSE <<>>

RECURSIVE collectPositiveTerms(_, _)
\* the tokens pushed to out, in the order of the walk
collectPositiveTerms(node, negated) ==
    IF node.kind = "TERM" THEN (IF ~negated THEN <<node.token>> ELSE <<>>)
    ELSE IF node.kind \in {"AND", "OR"} THEN
        collectPositiveTerms(node.left, negated) \o collectPositiveTerms(node.right, negated)
    ELSE IF node.kind = "NOT" THEN collectPositiveTerms(node.operand, ~negated)
    ELSE <<>>

(***************************************************************************)
(* Records.  Every string field is a string, <<>> when missing or empty;    *)
(* tags is an array of strings; scale, grid_width and grid_height hold the  *)
(* decimal text of a number, <<>> when the field is undefined.              *)
(***************************************************************************)
Blank ==
    [display_name |-> <<>>, displayName |-> <<>>, filename |-> <<>>, name |-> <<>>,
     path |-> <<>>, file_path |-> <<>>, tags |-> <<>>, scale |-> <<>>,
     grid_width |-> <<>>, grid_height |-> <<>>, size |-> <<>>, creature_type |-> <<>>,
     variant |-> <<>>, source |-> <<>>, tier |-> <<>>, color_variant |-> <<>>]

\* the text string concatenation gives a numeric field: 'undefined' when missing
NumTextOrEmpty(x) == x

NumText(x) == IF x = <<>> THEN <<"u","n","d","e","f","i","n","e","d">> ELSE x

\* a || b on strings
Or2(a, b) == IF a # <<>> THEN a ELSE b

buildHaystackWithFallbacks(item) ==
    LET tags == joinSpace(item.tags)
        grid_size == NumText(item.grid_width) \o <<"x">> \o NumText(item.grid_height)
        scale == <<"s">> \o NumText(item.scale) \o <<"x">>
        fields == <<Or2(item.display_name, item.displayName), item.filename,
                    Or2(item.path, item.file_path), scale, grid_size,
                    item.size, item.creature_type, item.variant, item.source,
                    item.tier, item.color_variant, tags>>
    IN  toLowerCase(joinSpace(fields))

buildHaystack(item) ==
    LET tags == joinSpace(item.tags)
        grid_size == NumText(item.grid_width) \o <<"x">> \o NumText(item.grid_height)
        scale == <<"s">> \o NumText(item.scale) \o <<"x">>
        fields == <<item.display_name, item.filename, item.path, scale, grid_size,
                    item.size, item.creature_type, item.variant, item.source,
                    item.tier, item.color_variant, tags>>
    IN  toLowerCase(joinSpace(fields))

displayKey(item) ==
    Or2(item.display_name, Or2(item.displayName, Or2(item.filename, item.name)))

(***************************************************************************)
(* Scorer.                                                                  *)
(***************************************************************************)
\* str.charAt(i) is a boundary or is past the end of str
BoundaryOrEnd(str, i) == i >= Len(str) \/ IsBoundaryChar(str[i + 1])

\* a boundary test that looks at the character after the match only
hasWordBoundaryAfterOnly(str, index, length) ==
    index + length >= Len(str) \/ str[index + length + 1] \notin LowerSet \cup DigitSet

hasWordBoundary(str, index, length) ==
    LET beforeOK == index = 0 \/ IsBoundaryChar(str[index])
        afterOK == BoundaryOrEnd(str, index + length)
    IN  beforeOK /\ afterOK

\* a file name root that keeps the extension
KeepExtension(filename) == filename

\* filename.replace(/\.[^.]+$/, ''): drops the last '.' and what follows it,
\* when something follows it
StripExtension(filename) ==
    LET dots == {i \in 1..Len(filename) : filename[i] = "."}
        last == CHOOSE i \in dots : \A j \in dots : j <= i
    IN  IF dots = {} \/ last = Len(filename) THEN filename
        ELSE SubSeq(filename, 1, last - 1)

\* a cascade that gives nothing for an occurrence inside a word
FieldPointsWholeWordsOnly(field, term, idx, pts) ==
    LET boundary == hasWordBoundary(field, idx, Len(term.value))
    IN  IF idx = 0 THEN
            IF term.exact THEN (IF boundary THEN pts.exactPrefix ELSE 0)
            ELSE IF boundary THEN pts.prefixWord ELSE pts.prefix
        ELSE IF boundary THEN (IF term.exact THEN pts.exactWord ELSE pts.word)
        ELSE 0

\* the points one field adds for a term found in it at idx (name and display
\* name share the shape of the cascade and differ in the points)
FieldPoints(field, term, idx, pts) ==
    LET len == Len(term.value)
        boundary == hasWordBoundary(field, idx, len)
    IN  IF idx = 0 THEN
            IF term.exact THEN (IF boundary THEN pts.exactPrefix ELSE 0)
            ELSE IF BoundaryOrEnd(field, len) THEN pts.prefixWord ELSE pts.prefix
        ELSE IF boundary THEN (IF term.exact THEN pts.exactWord ELSE pts.word)
        ELSE IF ~term.exact THEN pts.inside
        ELSE 0

\* the body of the for loop of scoreMatch: the points added for one term
TermScore(item, term) ==
    LET filename == toLowerCase(item.filename)
        nameRoot == StripExtension(filename)
        displayName == toLowerCase(Or2(item.display_name, item.displayName))
        path == toLowerCase(Or2(item.path, item.file_path))
        tags == toLowerCase(joinSpace(item.tags))
        value == term.value
        nameIdx == indexOf(nameRoot, value)
        displayIdx == indexOf(displayName, value)
        pathIdx == indexOf(path, value)
    IN  IF value = <<>> THEN 0
        ELSE IF nameRoot = value THEN 2000
        ELSE IF displayName = value THEN 1600
        ELSE IF nameIdx # -1 THEN
            FieldPoints(nameRoot, term, nameIdx,
                [exactPrefix |-> 1200, prefixWord |-> 1100, prefix |-> 900,
                 exactWord |-> 950, word |-> 750, inside |-> 500])
        ELSE IF displayIdx # -1 THEN
            FieldPoints(displayName, term, displayIdx,
                [exactPrefix |-> 560, prefixWord |-> 520, prefix |-> 450,
                 exactWord |-> 410, word |-> 380, inside |-> 280])
        ELSE IF tags # <<>> /\ haystackIncludesTerm(tags, term) THEN
            (IF term.exact THEN 200 ELSE 160)
        ELSE IF path # <<>> /\ pathIdx # -1
                /\ (hasWordBoundary(path, pathIdx, Len(value)) \/ ~term.exact) THEN
            (IF term.exact THEN 140 ELSE 120)
        ELSE 0

RECURSIVE SumScores(_, _)
SumScores(item, terms) ==
    IF terms = <<>> THEN 0
    ELSE TermScore(item, Head(terms)) + SumScores(item, Tail(terms))

scoreMatch(item, ast) == SumScores(item, collectPositiveTerms(ast, FALSE))

(***************************************************************************)
(* String.prototype.localeCompare under the default (root) collation, for   *)
(* the characters of CollationOrder: strings are ordered by their letters   *)
(* without regard to case (punctuation before digits before letters), and   *)
(* strings equal up to case are ordered lowercase first at the first        *)
(* position where the cases differ.                                         *)
(***************************************************************************)
CollationOrder == <<" ", "_", "-", ".">> \o Digits \o LowerLetters

PrimaryRank(c) == CHOOSE i \in 1..Len(CollationOrder) : CollationOrder[i] = LowerChar(c)

RECURSIVE ComparePrimary(_, _)
ComparePrimary(x, y) ==
    IF x = <<>> /\ y = <<>> THEN 0
    ELSE IF x = <<>> THEN -1
    ELSE IF y = <<>> THEN 1
    ELSE IF PrimaryRank(x[1]) < PrimaryRank(y[1]) THEN -1
    ELSE IF PrimaryRank(x[1]) > PrimaryRank(y[1]) THEN 1
    ELSE ComparePrimary(Tail(x), Tail(y))

RECURSIVE CompareCase(_, _)
CompareCase(x, y) ==
    IF x = <<>> \/ y = <<>> THEN 0
    ELSE IF x[1] = y[1] THEN CompareCase(Tail(x), Tail(y))
    ELSE IF x[1] \in UpperSet THEN 1 ELSE -1

localeCompare(x, y) ==
    IF ComparePrimary(x, y) # 0 THEN ComparePrimary(x, y) ELSE CompareCase(x, y)

(***************************************************************************)
(* The facade: matches and NexusSearchManager.filter.                       *)
(***************************************************************************)
\* a comparator that leaves rows of equal score in the order it met them
CompareRowsScoreOnly(a, b) == b.score - a.score

\* the comparator given to sort: negative when row a goes before row b
CompareRows(a, b) ==
    IF b.score - a.score # 0 THEN b.score - a.score
    ELSE localeCompare(displayKey(a.item), displayKey(b.item))

\* an unstable insertion: a row goes before the rows it compares equal to
InsertRowBeforeTies(sorted, row) ==
    LET before == {i \in 1..Len(sorted) : CompareRows(sorted[i], row) < 0}
        n == IF before = {} THEN 0 ELSE CHOOSE i \in before : \A j \in before : j <= i
    IN  SubSeq(sorted, 1, n) \o <<row>> \o SubSeq(sorted, n + 1, Len(sorted))

\* Array.prototype.sort is stable: a row goes after every row already placed
\* that does not compare greater than it.
InsertRow(sorted, row) ==
    LET before == {i \in 1..Len(sorted) : CompareRows(sorted[i], row) <= 0}
        n == IF before = {} THEN 0 ELSE CHOOSE i \in before : \A j \in before : j <= i
    IN  SubSeq(sorted, 1, n) \o <<row>> \o SubSeq(sorted, n + 1, Len(sorted))

RECURSIVE SortRows(_)
SortRows(rows) ==
    IF rows = <<>> THEN <<>>
    ELSE InsertRow(SortRows(DropLast(rows, 1)), rows[Len(rows)])

\* a matches that takes a query without a tree to match nothing
matchesNothingWithoutTree(item, q) ==
    LET tokens == tokenizeQuery(q)
        ast == parseQueryAST(tokens)
    IN  IF q = <<>> THEN TRUE
        ELSE IF tokens = <<>> THEN FALSE
        ELSE IF ast.kind = "NULL" THEN FALSE
        ELSE evaluateExpression(ast, buildHaystack(item))

matches(item, q) ==
    LET tokens == tokenizeQuery(q)
        ast == parseQueryAST(tokens)
    IN  IF q = <<>> THEN TRUE
        ELSE IF tokens = <<>> THEN TRUE
        ELSE IF ast.kind = "NULL" THEN TRUE
        ELSE evaluateExpression(ast, buildHaystack(item))

\* a selection that reads the file name alone instead of the haystack
FilteredByFilename(list, ast) ==
    SelectSeq(list, LAMBDA item : evaluateExpression(ast, toLowerCase(item.filename)))

\* items.map(item => ({ item, haystack })).filter(({ haystack }) => evaluate)
Filtered(list, ast) ==
    SelectSeq(list, LAMBDA item : evaluateExpression(ast, buildHaystack(item)))

\* filtered.map(score).sort(comparator).map(row => row.item)
Ranked(filtered, ast) ==
    LET rows == [i \in 1..Len(filtered) |->
                    [item |-> filtered[i], score |-> scoreMatch(filtered[i], ast)]]
        sorted == SortRows(rows)
    IN  [i \in 1..Len(sorted) |-> sorted[i].item]

\* a filter without the three early returns: every query is ranked
filterAlwaysRanks(list, rawQuery) ==
    LET ast == parseQueryAST(tokenizeQuery(trim(rawQuery)))
    IN  IF Filtered(list, ast) = <<>> THEN <<>> ELSE Ranked(Filtered(list, ast), ast)

\* a filter that returns nothing when the query gives no tree
filterEmptyWithoutTree(list, rawQuery) ==
    LET q == trim(rawQuery)
        tokens == tokenizeQuery(q)
        ast == parseQueryAST(tokens)
        filtered == Filtered(list, ast)
    IN  IF q = <<>> THEN list
        ELSE IF tokens = <<>> THEN <<>>
        ELSE IF ast.kind = "NULL" THEN <<>>
        ELSE IF filtered = <<>> THEN <<>>
        ELSE Ranked(filtered, ast)

filter(list, rawQuery) ==
    LET q == trim(rawQuery)
        tokens == tokenizeQuery(q)
        ast == parseQueryAST(tokens)
        filtered == Filtered(list, ast)
    IN  IF q = <<>> THEN list
        ELSE IF tokens = <<>> THEN list
        ELSE IF ast.kind = "NULL" THEN list
        ELSE IF filtered = <<>> THEN <<>>
        ELSE Ranked(filtered, ast)

(***************************************************************************)
(* Inputs.                                                                  *)
(***************************************************************************)
MaxItems == 2       \* longest record list
MaxPieces == 2      \* most fragments a typed query is made of
MaxWordLen == 2     \* longest word enumerated over WordChars

\* the records the lists are drawn from
RecordPool ==
    { [Blank EXCEPT !.filename = <<"a","b",".","p","n","g">>, !.display_name = <<"A","b">>],
      [Blank EXCEPT !.filename = <<"B","a",".","p","n","g">>],
      [Blank EXCEPT !.displayName = <<"B">>, !.tags = << <<"a">>, <<"b">> >>],
      [Blank EXCEPT !.name = <<"a">>, !.tags = << <<"a">> >>, !.path = <<"b","/","a">>],
      [Blank EXCEPT !.name = <<"a">>, !.tags = << <<"a">> >>, !.file_path = <<"b">>] }

ItemLists == UNION {[1..n -> RecordPool] : n \in 0..MaxItems}

\* the fragments a query is typed from
QueryPieces ==
    { <<"a","b">>, <<"b"," ">>, <<"B"," ","o","r"," ">>, <<"-">>, <<"'","a","'">>,
      <<" ">>, <<"(">>, <<")">> }

RECURSIVE Concat(_)
Concat(parts) == IF parts = <<>> THEN <<>> ELSE Head(parts) \o Concat(Tail(parts))

Queries == {Concat(ps) : ps \in UNION {[1..n -> QueryPieces] : n \in 0..MaxPieces}}

NotRun == <<"not run">>

\* the values of the variables a specification does not use
IdleParser == cursor = 0 /\ stack = <<>> /\ ret = Null /\ calls = 0

IdleScanner == rest = <<>> /\ pendingNegation = FALSE

IdleHeap == heap = <<>> /\ given = 0 /\ result = 0

IdleScorer == scores = <<>>

(***************************************************************************)
(* Spec: a caller holding a record list and a query calls filter, filters   *)
(* the result again with the same query, or asks matches about each record. *)
(***************************************************************************)
Init ==
    /\ items \in ItemLists
    /\ query \in Queries
    /\ out = NotRun
    /\ again = NotRun
    /\ verdicts = <<>>
    /\ singles = <<>>
    /\ words = <<>>
    /\ each = <<>>
    /\ shape = "none"
    /\ verdict = FALSE
    /\ toks = <<>>
    /\ pc = "ready"
    /\ IdleParser /\ IdleScanner /\ IdleHeap /\ IdleScorer

Filter ==
    /\ pc = "ready"
    /\ out' = filter(items, query)
    /\ pc' = "filtered"
    /\ UNCHANGED <<items, query, again, verdicts, singles, words, each, shape, verdict, toks,
                 stepVars, scanVars, heapVars, scoreVars>>

Refilter ==
    /\ pc = "filtered"
    /\ again' = filter(out, query)
    /\ pc' = "refiltered"
    /\ UNCHANGED <<items, query, out, verdicts, singles, words, each, shape, verdict, toks,
                 stepVars, scanVars, heapVars, scoreVars>>

Matches ==
    /\ pc = "ready"
    /\ verdicts' = [i \in 1..Len(items) |-> matches(items[i], query)]
    /\ singles' = [i \in 1..Len(items) |-> filter(<<items[i]>>, query)]
    /\ pc' = "matched"
    /\ UNCHANGED <<items, query, out, again, words, each, shape, verdict, toks,
                 stepVars, scanVars, heapVars, scoreVars>>

Next == Filter \/ Refilter \/ Matches

Spec == Init /\ [][Next]_vars

(***************************************************************************)
(* SpecWords: one record and three words a, b, c; the caller composes a     *)
(* query of a given shape from the words and asks matches, tokenizeQuery    *)
(* and filter about it, and asks matches about each word alone.             *)
(***************************************************************************)
WordChars == {"a", "B"}

Words == UNION {[1..n -> WordChars] : n \in 1..MaxWordLen}

KeywordWords == { <<"a","n","d">>, <<"o","r">>, <<"n","o","t">>, <<"O","r">> }

FirstWords == Words \cup KeywordWords \cup { <<"c","a","t">>, <<"a","1">> }

WordRecords ==
    RecordPool \cup
    { [Blank EXCEPT !.filename = <<"c","a","t",".","p","n","g">>, !.tags = << <<"a","1">> >>],
      [Blank EXCEPT !.filename = <<"c","a","t","a","l","o","g",".","p","n","g">>] }

Shapes == {"plain", "quoted", "negated", "adjacent", "and", "or", "or_and",
           "group_and", "group_not", "and_after", "or_after", "and_before", "or_before"}

ShapeQuery(s, w) ==
    LET a == w[1]
        b == w[2]
        c == w[3]
        aORb == a \o <<" ","O","R"," ">> \o b
    IN  CASE s = "plain" -> a
          [] s = "quoted" -> <<"'">> \o a \o <<"'">>
          [] s = "negated" -> <<"-">> \o a
          [] s = "adjacent" -> a \o <<" ">> \o b
          [] s = "and" -> a \o <<" ","A","N","D"," ">> \o b
          [] s = "or" -> aORb
          [] s = "or_and" -> aORb \o <<" ">> \o c
          [] s = "group_and" -> <<"(">> \o aORb \o <<")"," ">> \o c
          [] s = "group_not" -> <<"(">> \o aORb \o <<")"," ","-">> \o c
          [] s = "and_after" -> a \o <<" ","A","N","D">>
          [] s = "or_after" -> a \o <<" ","O","R">>
          [] s = "and_before" -> <<"A","N","D"," ">> \o a
          [] s = "or_before" -> <<"O","R"," ">> \o a

InitWords ==
    /\ items \in {<<r>> : r \in WordRecords}
    /\ words \in {<<a, b, c>> : a \in FirstWords, b \in Words, c \in Words}
    /\ query = <<>>
    /\ out = NotRun
    /\ again = NotRun
    /\ verdicts = <<>>
    /\ singles = <<>>
    /\ each = <<>>
    /\ shape = "none"
    /\ verdict = FALSE
    /\ toks = <<>>
    /\ pc = "ready"
    /\ IdleParser /\ IdleScanner /\ IdleHeap /\ IdleScorer

Compose(s) ==
    /\ pc = "ready"
    /\ shape' = s
    /\ query' = ShapeQuery(s, words)
    /\ verdict' = matches(items[1], query')
    /\ toks' = tokenizeQuery(query')
    /\ out' = filter(items, query')
    /\ each' = [k \in 1..3 |-> matches(items[1], words[k])]
    /\ pc' = "composed"
    /\ UNCHANGED <<items, again, verdicts, singles, words,
                 stepVars, scanVars, heapVars, scoreVars>>

NextWords == \E s \in Shapes : Compose(s)

SpecWords == InitWords /\ [][NextWords]_vars

(***************************************************************************)
(* SpecParse: parseQueryAST on a token list, one call or one return of a    *)
(* production at a time.  stack holds the productions in progress; a frame  *)
(* records the production (fn), the point it resumes at (at), its local     *)
(* variable node, the cursor when the production was entered (entry) and    *)
(* the cursor when the current turn of its loop began (from).               *)
(***************************************************************************)
MaxTokens == 4      \* longest token list parsed

TokenPool ==
    { TermToken(<<"a","b">>, FALSE, FALSE), TermToken(<<"x">>, FALSE, FALSE),
      TermToken(<<"a","b">>, FALSE, TRUE),
      OpToken("AND"), OpToken("OR"), OpToken("NOT"), OpToken("LPAREN"), OpToken("RPAREN") }

TokenLists == UNION {[1..n -> TokenPool] : n \in 0..MaxTokens}

Frame(fn, entry) ==
    [fn |-> fn, at |-> "entry", node |-> Null, entry |-> entry, from |-> entry]

\* what a production does next: it calls another production, or it returns
Call(self, callee, next) == [op |-> "call", self |-> self, callee |-> callee, index |-> next]

Return(node, next) == [op |-> "return", node |-> node, index |-> next]

\* consume(): index++
consume(i) == i + 1

\* an unknown token that is returned as null without being consumed
leaveUnknown(i) == i

\* "Unknown token; consume to avoid infinite loops"
consumeUnknown(i) == consume(i)

\* one turn of the while loop of parseOr, node in hand
parseOrTurn(tokens, f, node, i) ==
    IF PeekType(tokens, i) # "OR" THEN Return(node, i)
    ELSE Call([f EXCEPT !.at = "right", !.node = node, !.from = i], "parseAnd", consume(i))

\* parseOr resumed with r, the node its last call returned
parseOrStep(tokens, f, i, r) ==
    IF f.at = "entry" THEN Call([f EXCEPT !.at = "first"], "parseAnd", i)
    ELSE IF f.at = "first" THEN parseOrTurn(tokens, f, r, i)
    ELSE parseOrTurn(tokens, f, combine(f.node, r, "OR"), i)

\* one turn of the while loop of parseAnd, node in hand
parseAndTurn(tokens, f, node, i) ==
    LET type == PeekType(tokens, i)
        self == [f EXCEPT !.at = "right", !.node = node, !.from = i]
    IN  IF type = "AND" THEN Call(self, "parseUnary", consume(i))
        ELSE IF type \in {"TERM", "NOT", "LPAREN"} THEN Call(self, "parseUnary", i)
        ELSE Return(node, i)

parseAndStep(tokens, f, i, r) ==
    IF f.at = "entry" THEN Call([f EXCEPT !.at = "first"], "parseUnary", i)
    ELSE IF f.at = "first" THEN parseAndTurn(tokens, f, r, i)
    ELSE IF r.kind = "NULL" THEN Return(f.node, i)
    ELSE parseAndTurn(tokens, f, combine(f.node, r, "AND"), i)

parseUnaryStep(tokens, f, i, r) ==
    IF f.at = "entry" THEN
        IF PeekType(tokens, i) = "NONE" THEN Return(Null, i)
        ELSE IF PeekType(tokens, i) = "NOT" THEN
            Call([f EXCEPT !.at = "operand"], "parseUnary", consume(i))
        ELSE Call([f EXCEPT !.at = "primary"], "parsePrimary", i)
    ELSE IF f.at = "operand" THEN
        IF IsMalformedOperand(r) THEN Return(Null, i)
        ELSE Return(NotNode(r), i)
    ELSE Return(r, i)

parsePrimaryStep(tokens, f, i, r) ==
    LET type == PeekType(tokens, i)
        tok == tokens[i + 1]
    IN  IF f.at = "entry" THEN
            IF type = "NONE" THEN Return(Null, i)
            ELSE IF type = "TERM" THEN
                Return(IF tok.negated THEN NotNode(TermNode(tok)) ELSE TermNode(tok),
                       consume(i))
            ELSE IF type = "LPAREN" THEN
                Call([f EXCEPT !.at = "inner"], "parseOr", consume(i))
            ELSE Return(Null, consumeUnknown(i))
        ELSE Return(r, IF type = "RPAREN" THEN consume(i) ELSE i)

\* the innermost production in progress, and what it does next
Top == stack[Len(stack)]

StepOf(f) ==
    CASE f.fn = "parseOr" -> parseOrStep(toks, f, cursor, ret)
      [] f.fn = "parseAnd" -> parseAndStep(toks, f, cursor, ret)
      [] f.fn = "parseUnary" -> parseUnaryStep(toks, f, cursor, ret)
      [] f.fn = "parsePrimary" -> parsePrimaryStep(toks, f, cursor, ret)

InitParse ==
    /\ toks \in TokenLists
    /\ cursor = 0
    /\ stack = <<Frame("parseOr", 0)>>
    /\ ret = Null
    /\ calls = 1
    /\ pc = "parsing"
    /\ items = <<>> /\ query = <<>> /\ out = NotRun /\ again = NotRun
    /\ verdicts = <<>> /\ singles = <<>> /\ words = <<>> /\ each = <<>>
    /\ shape = "none" /\ verdict = FALSE
    /\ IdleScanner /\ IdleHeap /\ IdleScorer

\* the innermost production calls another production
Descend ==
    /\ pc = "parsing"
    /\ StepOf(Top).op = "call"
    /\ cursor' = StepOf(Top).index
    /\ stack' = SubSeq(stack, 1, Len(stack) - 1)
                  \o <<StepOf(Top).self, Frame(StepOf(Top).callee, cursor')>>
    /\ ret' = Null
    /\ calls' = calls + 1
    /\ UNCHANGED <<items, query, out, again, verdicts, singles, words, each, shape,
                   verdict, toks, pc, scanVars, heapVars, scoreVars>>

\* the innermost production returns; the outermost one ends the parse
Ascend ==
    /\ pc = "parsing"
    /\ StepOf(Top).op = "return"
    /\ cursor' = StepOf(Top).index
    /\ stack' = SubSeq(stack, 1, Len(stack) - 1)
    /\ ret' = StepOf(Top).node
    /\ pc' = IF Len(stack) = 1 THEN "parsed" ELSE "parsing"
    /\ UNCHANGED <<items, query, out, again, verdicts, singles, words, each, shape,
                   verdict, toks, calls, scanVars, heapVars, scoreVars>>

NextParse == Descend \/ Ascend

SpecParse == InitParse /\ [][NextParse]_vars

(***************************************************************************)
(* SpecScan: tokenizeQuery on a query string, one lexeme of rawTokens at a  *)
(* time.                                                                    *)
(***************************************************************************)
MaxScanPieces == 4      \* most fragments a scanned query is made of

\* the fragments a scanned query is made of
ScanPieces ==
    { <<"-">>, <<" ">>, <<"(">>, <<")">>, <<"'">>, <<"\"">>, <<"a">>, <<"b","c">>,
      <<"o","r">>, <<"A","N","D">>, <<"N","o","t">> }

ScanQueries == {Concat(ps) : ps \in UNION {[1..n -> ScanPieces] : n \in 0..MaxScanPieces}}

InitScan ==
    /\ query \in ScanQueries
    /\ toks = <<>>
    /\ rest = <<>>
    /\ pendingNegation = FALSE
    /\ pc = "ready"
    /\ items = <<>> /\ out = NotRun /\ again = NotRun
    /\ verdicts = <<>> /\ singles = <<>> /\ words = <<>> /\ each = <<>>
    /\ shape = "none" /\ verdict = FALSE
    /\ IdleParser /\ IdleHeap /\ IdleScorer

\* const rawTokens = String(query).match(TOKEN_PATTERN) || []
Match ==
    /\ pc = "ready"
    /\ rest' = MatchAll(query, 0)
    /\ toks' = <<>>
    /\ pendingNegation' = FALSE
    /\ pc' = "scanning"
    /\ UNCHANGED <<items, query, out, again, verdicts, singles, words, each, shape,
                   verdict, stepVars, heapVars, scoreVars>>

\* one iteration of  for (const raw of rawTokens)
Visit ==
    /\ pc = "scanning"
    /\ rest # <<>>
    /\ LET st == TokenizeStep([tokens |-> toks, pendingNegation |-> pendingNegation],
                              Head(rest))
       IN  /\ toks' = st.tokens
           /\ pendingNegation' = st.pendingNegation
    /\ rest' = Tail(rest)
    /\ UNCHANGED <<items, query, out, again, verdicts, singles, words, each, shape,
                   verdict, pc, stepVars, heapVars, scoreVars>>

\* return tokens
Scanned ==
    /\ pc = "scanning"
    /\ rest = <<>>
    /\ pc' = "scanned"
    /\ UNCHANGED <<items, query, out, again, verdicts, singles, words, each, shape,
                   verdict, toks, stepVars, scanVars, heapVars, scoreVars>>

NextScan == Match \/ Visit \/ Scanned

SpecScan == InitScan /\ [][NextScan]_vars

(***************************************************************************)
(* SpecQuote: tokenizeQuery on a query that is one quoted span, written     *)
(* after zero or more dashes and possibly a space.                          *)
(***************************************************************************)
MaxDashes == 2          \* most dashes written before the quoted span
MaxInnerPieces == 3     \* most fragments between the quotes

\* the fragments the text between the quotes is made of
InnerPieces ==
    { <<"b","i","g">>, <<"c","a","t">>, <<"a">>, <<" ">>, <<"\f">>, <<"(">>, <<")">> }

InnerTexts == {Concat(ps) : ps \in UNION {[1..n -> InnerPieces] : n \in 0..MaxInnerPieces}}

\* dashes, spacer, quote character and inner text of a query
QuoteParts ==
    { <<[i \in 1..n |-> "-"], sp, <<c>>, inner>> :
        n \in 0..MaxDashes, sp \in {<<>>, <<" ">>}, c \in {"'", "\""}, inner \in InnerTexts }

QuoteQuery(parts) == parts[1] \o parts[2] \o parts[3] \o parts[4] \o parts[3]

InitQuote ==
    /\ words \in QuoteParts
    /\ query = QuoteQuery(words)
    /\ toks = <<>>
    /\ rest = <<>>
    /\ pendingNegation = FALSE
    /\ pc = "ready"
    /\ items = <<>> /\ out = NotRun /\ again = NotRun
    /\ verdicts = <<>> /\ singles = <<>> /\ each = <<>>
    /\ shape = "none" /\ verdict = FALSE
    /\ IdleParser /\ IdleHeap /\ IdleScorer

SpecQuote == InitQuote /\ [][NextScan]_vars

(***************************************************************************)
(* SpecRank: a caller searches a record list for one word, plain or quoted. *)
(***************************************************************************)
\* records whose file name root, display name, tags and path hold ab in
\* different ways
RankPool ==
    { [Blank EXCEPT !.filename = <<"a","b",".","p","n","g">>, !.display_name = <<"Z","z">>],
      [Blank EXCEPT !.filename = <<"A","b",".","x",".","P","N","G">>],
      [Blank EXCEPT !.filename = <<"A","B">>],
      [Blank EXCEPT !.filename = <<"a","b","c",".","p","n","g">>, !.display_name = <<"A","b">>],
      [Blank EXCEPT !.filename = <<"a","b","-","c",".","p","n","g">>],
      [Blank EXCEPT !.filename = <<"c",".","p","n","g">>, !.tags = << <<"a","b">> >>],
      [Blank EXCEPT !.filename = <<"c","a","b",".","p","n","g">>, !.displayName = <<"A","a">>] }

RankLists == UNION {[1..n -> RankPool] : n \in 0..MaxItems}

RankWords == { <<"a","b">>, <<"A","B">>, <<"a","b",".","x">>, <<"c">> }

InitRank ==
    /\ items \in RankLists
    /\ words \in {<<t>> : t \in RankWords}
    /\ query = <<>>
    /\ out = NotRun
    /\ shape = "none"
    /\ pc = "ready"
    /\ again = NotRun /\ verdicts = <<>> /\ singles = <<>> /\ each = <<>>
    /\ verdict = FALSE /\ toks = <<>>
    /\ IdleParser /\ IdleScanner /\ IdleHeap /\ IdleScorer

Search(s) ==
    /\ pc = "ready"
    /\ shape' = s
    /\ query' = ShapeQuery(s, <<words[1], <<>>, <<>> >>)
    /\ out' = filter(items, query')
    /\ pc' = "ranked"
    /\ UNCHANGED <<items, again, verdicts, singles, words, each, verdict, toks,
                   stepVars, scanVars, heapVars, scoreVars>>

NextRank == \E s \in {"plain", "quoted"} : Search(s)

SpecRank == InitRank /\ [][NextRank]_vars

(***************************************************************************)
(* SpecHeap: filter with its arrays held by reference.  heap is the list of *)
(* the arrays that exist and a reference is a position in it; map, filter   *)
(* and an array literal make a new array, sort rearranges the array it is   *)
(* called on.  An array cell holds the record it refers to, so a change of  *)
(* a record shows as a change of every array that holds it.                *)
(***************************************************************************)
\* a new array holding elems
NewArray(h, elems) == [heap |-> Append(h, elems), ref |-> Len(h) + 1]

\* (items || []).map((item) => ({ item, haystack: buildHaystack(item) }))
MapToHaystacks(h, ref) ==
    NewArray(h, [i \in 1..Len(h[ref]) |->
                    [item |-> h[ref][i], haystack |-> buildHaystack(h[ref][i])]])

\* .filter(({ haystack }) => evaluateExpression(ast, haystack))
FilterByTree(h, ref, ast) ==
    NewArray(h, SelectSeq(h[ref], LAMBDA row : evaluateExpression(ast, row.haystack)))

\* filtered.map(({ item }) => ({ item, score: scoreMatch(item, ast) }))
MapToScores(h, ref, ast) ==
    NewArray(h, [i \in 1..Len(h[ref]) |->
                    [item |-> h[ref][i].item, score |-> scoreMatch(h[ref][i].item, ast)]])

\* .sort(comparator): the array itself is sorted and returned
SortInPlace(h, ref) == [heap |-> [h EXCEPT ![ref] = SortRows(h[ref])], ref |-> ref]

\* .map((row) => row.item)
MapToItems(h, ref) == NewArray(h, [i \in 1..Len(h[ref]) |-> h[ref][i].item])

\* a filter that sorts the list it is given and returns the selection of it
filterSortingInput(h, list, rawQuery) ==
    LET q == trim(rawQuery)
        tokens == tokenizeQuery(q)
        ast == parseQueryAST(tokens)
        rows == [i \in 1..Len(h[list]) |->
                    [item |-> h[list][i], score |-> scoreMatch(h[list][i], ast)]]
        sorted == [h EXCEPT ![list] = [i \in 1..Len(rows) |-> SortRows(rows)[i].item]]
    IN  IF q = <<>> THEN [heap |-> h, ref |-> list]
        ELSE IF tokens = <<>> THEN [heap |-> h, ref |-> list]
        ELSE IF ast.kind = "NULL" THEN [heap |-> h, ref |-> list]
        ELSE NewArray(sorted, Filtered(sorted[list], ast))

\* NexusSearchManager.filter(items, query), items being the reference list
filterByReference(h, list, rawQuery) ==
    LET q == trim(rawQuery)
        tokens == tokenizeQuery(q)
        ast == parseQueryAST(tokens)
        haystacks == MapToHaystacks(h, list)
        filtered == FilterByTree(haystacks.heap, haystacks.ref, ast)
        scored == MapToScores(filtered.heap, filtered.ref, ast)
        sorted == SortInPlace(scored.heap, scored.ref)
    IN  IF q = <<>> THEN [heap |-> h, ref |-> list]
        ELSE IF tokens = <<>> THEN [heap |-> h, ref |-> list]
        ELSE IF ast.kind = "NULL" THEN [heap |-> h, ref |-> list]
        ELSE IF filtered.heap[filtered.ref] = <<>> THEN NewArray(filtered.heap, <<>>)
        ELSE MapToItems(sorted.heap, sorted.ref)

\* the queries of the caller: blank, without tree, one word, two words
HeapQueries ==
    { <<>>, <<" ">>, <<"-">>, <<"(",")">>, <<"a","b">>, <<"'","a","b","'">>, <<"c">>,
      <<"z","z">>, <<"a","b"," ","O","R"," ","c">>, <<"a","b"," ","-","c","a">> }

InitHeap ==
    /\ items \in RankLists
    /\ query \in HeapQueries
    /\ heap = <<items>>
    /\ given = 1
    /\ result = 0
    /\ out = <<>>
    /\ again = <<>>
    /\ verdicts = <<>>
    /\ pc = "ready"
    /\ singles = <<>> /\ words = <<>> /\ each = <<>>
    /\ shape = "none" /\ verdict = FALSE /\ toks = <<>>
    /\ IdleParser /\ IdleScanner /\ IdleScorer

CallFilter ==
    /\ pc = "ready"
    /\ \E r \in {filterByReference(heap, given, query)} :
           heap' = r.heap /\ result' = r.ref /\ out' = r.heap[r.ref]
    /\ pc' = "filtered"
    /\ UNCHANGED <<items, query, again, verdicts, singles, words, each, shape, verdict,
                   toks, given, stepVars, scanVars, scoreVars>>

\* a later call with the same list and query
CallFilterAgain ==
    /\ pc = "filtered"
    /\ \E r \in {filterByReference(heap, given, query)} :
           heap' = r.heap /\ result' = r.ref /\ again' = r.heap[r.ref]
    /\ pc' = "refiltered"
    /\ UNCHANGED <<items, query, out, verdicts, singles, words, each, shape, verdict,
                   toks, given, stepVars, scanVars, scoreVars>>

\* matches(item, query) for each record of the list; it makes no array of records
CallMatches ==
    /\ pc \in {"ready", "filtered"}
    /\ verdicts' = [i \in 1..Len(heap[given]) |-> matches(heap[given][i], query)]
    /\ pc' = "matched"
    /\ UNCHANGED <<items, query, out, again, singles, words, each, shape, verdict,
                   toks, heapVars, stepVars, scanVars, scoreVars>>

NextHeap == CallFilter \/ CallFilterAgain \/ CallMatches

SpecHeap == InitHeap /\ [][NextHeap]_vars

(***************************************************************************)
(* SpecScore: a caller searches one record for one word, plain or quoted,   *)
(* and the scorer is asked for the points of the record.                    *)
(***************************************************************************)
Png(root) == root \o <<".","p","n","g">>

\* a record with every field set
FullRecord ==
    [display_name |-> <<"D","n">>, displayName |-> <<"X","X">>,
     filename |-> <<"F",".","p","n","g">>, name |-> <<"N","N">>,
     path |-> <<"p","/","Q">>, file_path |-> <<"y","y">>,
     tags |-> << <<"T","1">>, <<"t","2">> >>, scale |-> <<"2">>,
     grid_width |-> <<"3">>, grid_height |-> <<"4">>, size |-> <<"S","z">>,
     creature_type |-> <<"c","t">>, variant |-> <<"v","r">>, source |-> <<"s","r">>,
     tier |-> <<"t","r">>, color_variant |-> <<"C","v">>]

\* records that hold ab in the file name, the display name, the tags and the
\* path in the ways the scorer tells apart
ScorePool ==
    { [Blank EXCEPT !.filename = Png(<<"a","b">>)],
      [Blank EXCEPT !.filename = Png(<<"z","z">>), !.display_name = <<"A","b">>],
      [Blank EXCEPT !.filename = Png(<<"a","b","c">>), !.displayName = <<"a","B">>],
      [Blank EXCEPT !.filename = Png(<<"A","b","-","c">>)],
      [Blank EXCEPT !.filename = Png(<<"a","b","c">>)],
      [Blank EXCEPT !.filename = Png(<<"c","-","a","b">>)],
      [Blank EXCEPT !.filename = Png(<<"c","-","a","b","d">>)],
      [Blank EXCEPT !.filename = Png(<<"c","a","b">>)],
      [Blank EXCEPT !.filename = Png(<<"c","a","b","-","a","b">>)],
      [Blank EXCEPT !.filename = Png(<<"c","a","b">>), !.tags = << <<"a","b">> >>],
      [Blank EXCEPT !.filename = Png(<<"c","a","b">>), !.display_name = <<"a","b"," ","c">>],
      [Blank EXCEPT !.filename = Png(<<"z","z">>), !.display_name = <<"A","b"," ","c">>],
      [Blank EXCEPT !.display_name = <<"A","b","c">>],
      [Blank EXCEPT !.display_name = <<"c"," ","a","b">>],
      [Blank EXCEPT !.display_name = <<"c","a","b">>],
      [Blank EXCEPT !.display_name = <<"c","a","b">>, !.path = <<"a","b">>],
      [Blank EXCEPT !.filename = Png(<<"z","z">>), !.displayName = <<"c"," ","A","b">>],
      [Blank EXCEPT !.tags = << <<"c">>, <<"A","b">> >>],
      [Blank EXCEPT !.tags = << <<"c","a","b">> >>],
      [Blank EXCEPT !.tags = << <<"c","a","b">> >>, !.path = <<"a","b","/","x">>],
      [Blank EXCEPT !.path = <<"x","/","A","b">>],
      [Blank EXCEPT !.path = <<"x","/","c","a","b">>],
      [Blank EXCEPT !.path = <<"c","a","b","/","a","b">>],
      [Blank EXCEPT !.file_path = <<"x","/","a","b">>],
      [Blank EXCEPT !.path = <<"z","z">>, !.file_path = <<"a","b">>],
      [Blank EXCEPT !.name = <<"a","b">>],
      [Blank EXCEPT !.filename = Png(<<"z","z">>), !.scale = <<"1">>],
      [Blank EXCEPT !.filename = <<"a","b">>, !.grid_width = <<"2">>],
      FullRecord }

ScoreWords ==
    { <<"a","b">>, <<"A","B">>, <<"u","n","d","e","f","i","n","e","d">>, <<"x","x">>,
      <<"t","1">> }

InitScore ==
    /\ items \in {<<r>> : r \in ScorePool}
    /\ words \in {<<w>> : w \in ScoreWords}
    /\ query = <<>>
    /\ out = NotRun
    /\ shape = "none"
    /\ verdict = FALSE
    /\ scores = <<>>
    /\ pc = "ready"
    /\ again = NotRun /\ verdicts = <<>> /\ singles = <<>> /\ each = <<>> /\ toks = <<>>
    /\ IdleParser /\ IdleScanner /\ IdleHeap

\* the caller filters the list, and the record is matched and scored
Score(s) ==
    /\ pc = "ready"
    /\ shape' = s
    /\ query' = ShapeQuery(s, <<words[1], <<>>, <<>> >>)
    /\ toks' = tokenizeQuery(query')
    /\ verdict' = matches(items[1], query')
    /\ scores' = [i \in 1..Len(items) |-> scoreMatch(items[i], parseQueryAST(toks'))]
    /\ out' = filter(items, query')
    /\ pc' = "scored"
    /\ UNCHANGED <<items, again, verdicts, singles, words, each,
                   stepVars, scanVars, heapVars>>

NextScore == \E s \in {"plain", "quoted"} : Score(s)

SpecScore == InitScore /\ [][NextScore]_vars

(***************************************************************************)
(* Properties of filter and matches, checked under Spec.                    *)
(***************************************************************************)
TreeOf(q) == parseQueryAST(tokenizeQuery(q))

HasTree(q) == TreeOf(q).kind # "NULL"

\* how many times record r occurs in list s
Count(s, r) == Cardinality({i \in 1..Len(s) : s[i] = r})

\* the record evaluates to true against the tree of q
Passes(r, q) == evaluateExpression(TreeOf(q), buildHaystack(r))

\* the display key as the specification words it
KeyOf(r) ==
    IF r.display_name # <<>> THEN r.display_name
    ELSE IF r.displayName # <<>> THEN r.displayName
    ELSE IF r.filename # <<>> THEN r.filename
    ELSE IF r.name # <<>> THEN r.name
    ELSE <<>>

\* x is not after y when case is disregarded
CaseInsensitiveLE(x, y) == localeCompare(toLowerCase(x), toLowerCase(y)) <= 0

IsBlank(q) == \A i \in 1..Len(q) : q[i] \in WhiteSpace

\* C1: for a query with a tree, filter returns exactly the input records that
\* evaluate to true against the tree, each as often as it occurs in the input,
\* and nothing else; the filter of the empty list is empty for every query.
C1_FilterKeepsExactlyMatches ==
    pc = "filtered" =>
        /\ (items = <<>> => out = <<>>)
        /\ (HasTree(query) =>
               /\ \A k \in 1..Len(out) : \E i \in 1..Len(items) : items[i] = out[k]
               /\ \A r \in RecordPool :
                      Count(out, r) = IF Passes(r, query) THEN Count(items, r) ELSE 0)

\* a list of two records of which filter kept one and dropped the other
C1_Witness ==
    /\ pc = "filtered" /\ HasTree(query)
    /\ Len(items) = 2 /\ Len(out) = 1
    /\ Passes(items[2], query) /\ ~Passes(items[1], query)

\* C2: the result is in non-increasing order of score, and records of equal
\* score are in ascending case-insensitive order of their display key.
C2_ResultOrdered ==
    (pc = "filtered" /\ HasTree(query)) =>
        \A i, j \in 1..Len(out) :
            i < j =>
                LET si == scoreMatch(out[i], TreeOf(query))
                    sj == scoreMatch(out[j], TreeOf(query))
                IN  /\ si >= sj
                    /\ (si = sj => CaseInsensitiveLE(KeyOf(out[i]), KeyOf(out[j])))

\* two records of equal positive score that filter returned in the order of
\* their keys "a" and "B", against the order of the input
C2_Witness ==
    /\ pc = "filtered" /\ HasTree(query)
    /\ Len(out) = 2 /\ Len(items) = 2
    /\ out[1] = items[2] /\ out[2] = items[1]
    /\ scoreMatch(out[1], TreeOf(query)) = scoreMatch(out[2], TreeOf(query))
    /\ scoreMatch(out[1], TreeOf(query)) > 0
    /\ KeyOf(out[1]) = <<"a">> /\ KeyOf(out[2]) = <<"B">>

\* C3: for an empty or whitespace-only query filter returns the input list,
\* the same elements in the same order.
C3_BlankQueryIsIdentity ==
    (pc = "filtered" /\ IsBlank(query)) => out = items

\* a whitespace query on a list that is not in display-key order
C3_Witness ==
    /\ pc = "filtered" /\ query # <<>> /\ IsBlank(query)
    /\ Len(items) = 2 /\ out = items
    /\ ~CaseInsensitiveLE(KeyOf(items[1]), KeyOf(items[2]))

\* C4: matches(r, q) is true exactly when r is an element of filter([r], q).
C4_MatchesAgreesWithFilter ==
    pc = "matched" =>
        \A i \in 1..Len(items) :
            verdicts[i] <=> (\E k \in 1..Len(singles[i]) : singles[i][k] = items[i])

\* a query with a tree that one record matches and another does not
C4_Witness ==
    /\ pc = "matched" /\ HasTree(query)
    /\ Len(items) = 2 /\ verdicts = <<TRUE, FALSE>>
    /\ singles[1] = <<items[1]>> /\ singles[2] = <<>>

\* C5: filtering the result of filter again with the same query returns the
\* same records in the same order.
C5_FilterIdempotent ==
    pc = "refiltered" => again = out

\* a result of two distinct records that tie in score and in display key
C5_Witness ==
    /\ pc = "refiltered" /\ HasTree(query)
    /\ Len(out) = 2 /\ out[1] # out[2]
    /\ KeyOf(out[1]) = KeyOf(out[2])
    /\ scoreMatch(out[1], TreeOf(query)) = scoreMatch(out[2], TreeOf(query))
    /\ again = out

\* queries that are not blank and give no tree:  -   -x   NOT x   or   ()
MalformedExamples ==
    { <<"-">>, <<"-","x">>, <<"N","O","T"," ","x">>, <<"o","r">>, <<"(",")">> }

\* C11: for a query that is not blank and whose token list is empty or whose
\* tree is null, filter returns the input list unchanged and matches is true
\* for every record; so it is for the queries  -  -x  NOT x  or  ().
C11_MalformedQueryFiltersNothing ==
    /\ (pc = "filtered" /\ ~IsBlank(query) /\ ~HasTree(query)) => out = items
    /\ (pc = "matched" /\ ~IsBlank(query) /\ ~HasTree(query)) =>
           \A i \in 1..Len(items) : verdicts[i] /\ singles[i] = <<items[i]>>
    /\ pc = "filtered" =>
           \A q \in MalformedExamples :
               /\ ~IsBlank(q) /\ ~HasTree(q)
               /\ filter(items, q) = items
               /\ \A i \in 1..Len(items) : matches(items[i], q)

\* a query with tokens and no tree, on two records that a ranking would swap:
\* the list comes back as it was given
C11_Witness ==
    /\ pc = "filtered" /\ ~IsBlank(query)
    /\ tokenizeQuery(trim(query)) # <<>> /\ ~HasTree(query)
    /\ Len(items) = 2 /\ out = items
    /\ ~CaseInsensitiveLE(KeyOf(items[1]), KeyOf(items[2]))

(***************************************************************************)
(* Properties of the query language, checked under SpecWords.               *)
(***************************************************************************)
IsKeyword(w) == toLowerCase(w) \in { <<"a","n","d">>, <<"o","r">>, <<"n","o","t">> }

\* the haystack of the record under test
Hay == buildHaystack(items[1])

\* v occurs in h with, on each side, the edge of h or a character outside [a-z0-9]
WholeWordIn(h, v) ==
    \E i \in 0..(Len(h) - Len(v)) :
        /\ \A k \in 1..Len(v) : h[i + k] = v[k]
        /\ (i = 0 \/ h[i] \notin LowerSet \cup DigitSet)
        /\ (i + Len(v) = Len(h) \/ h[i + Len(v) + 1] \notin LowerSet \cup DigitSet)

Cat == <<"c","a","t">>

\* C6: a quoted term matches exactly when its lowercased text occurs in the
\* haystack between edges or characters outside [a-z0-9] ('cat' does not match
\* catalog.png and matches cat.png); an unquoted term matches exactly when its
\* text is a substring of the haystack.
C6_ExactIsWholeWord ==
    pc = "composed" =>
        /\ (shape = "quoted" => verdict = WholeWordIn(Hay, toLowerCase(words[1])))
        /\ (shape = "quoted" /\ words[1] = Cat
                /\ items[1].filename = <<"c","a","t","a","l","o","g",".","p","n","g">>
              => ~verdict)
        /\ (shape = "quoted" /\ words[1] = Cat
                /\ items[1].filename = <<"c","a","t",".","p","n","g">>
              => verdict)
        /\ (shape = "plain" /\ ~IsKeyword(words[1])
              => verdict = includes(Hay, toLowerCase(words[1])))

\* the quoted query 'cat' rejected for catalog.png, whose haystack contains cat
C6_Witness ==
    /\ pc = "composed" /\ shape = "quoted" /\ words[1] = Cat
    /\ includes(Hay, Cat) /\ ~verdict

\* C7 as stated: for every word t of at least 2 letters and digits,
\* matches(r, "-" + t) is true exactly when matches(r, t) is false.
C7_NegationOfEveryWord ==
    (pc = "composed" /\ shape = "negated" /\ Len(words[1]) >= 2) =>
        (verdict <=> ~each[1])

\* C7 amended: for every word t of at least 2 letters and digits that is not
\* one of the keywords and, or, not (in any letter case), matches(r, "-" + t)
\* is true exactly when matches(r, t) is false.
C7_NegationOfNonKeyword ==
    (pc = "composed" /\ shape = "negated" /\ Len(words[1]) >= 2 /\ ~IsKeyword(words[1])) =>
        (verdict <=> ~each[1])

\* a record that matches a two-letter word and is rejected by its negation
C7_Witness ==
    /\ pc = "composed" /\ shape = "negated"
    /\ Len(words[1]) = 2 /\ ~IsKeyword(words[1])
    /\ each[1] /\ ~verdict

\* C8: for plain non-keyword words a and b, matches(r, "a b") and
\* matches(r, "a AND b") both equal matches(r, a) and matches(r, b).
C8_AdjacencyIsAnd ==
    (pc = "composed" /\ shape \in {"adjacent", "and"}
        /\ ~IsKeyword(words[1]) /\ ~IsKeyword(words[2])) =>
        (verdict <=> (each[1] /\ each[2]))

\* a record that matches a, does not match b, and is rejected by "a b"
C8_Witness ==
    /\ pc = "composed" /\ shape = "adjacent"
    /\ each[1] /\ ~each[2] /\ ~verdict

\* C9: for plain non-keyword words, "a OR b" is A or B, "a OR b c" is
\* A or (B and C), and "(a OR b) c" is (A or B) and C.
C9_OrBindsWeakerThanAnd ==
    (pc = "composed" /\ ~IsKeyword(words[1]) /\ ~IsKeyword(words[2])
        /\ ~IsKeyword(words[3])) =>
        /\ (shape = "or" => (verdict <=> (each[1] \/ each[2])))
        /\ (shape = "or_and" => (verdict <=> (each[1] \/ (each[2] /\ each[3]))))
        /\ (shape = "group_and" => (verdict <=> ((each[1] \/ each[2]) /\ each[3])))

\* a record that matches a but not c: "(a OR b) c" rejects it
C9_Witness ==
    /\ pc = "composed" /\ shape = "group_and"
    /\ each[1] /\ ~each[3] /\ ~verdict

PlainTerm(w) == [type |-> "TERM", value |-> toLowerCase(w), exact |-> FALSE, negated |-> FALSE]

NegatedTerm(w) == [type |-> "TERM", value |-> toLowerCase(w), exact |-> FALSE, negated |-> TRUE]

Dangling == {"and_after", "or_after", "and_before", "or_before"}

\* C22: for a plain non-keyword word a, matches on "a AND", "a OR", "AND a"
\* and "OR a" equals matches on a alone; the tree is the tree of a alone and
\* filter returns what it returns for a alone.
C22_DanglingOperatorIgnored ==
    (pc = "composed" /\ shape \in Dangling /\ ~IsKeyword(words[1])) =>
        /\ verdict = each[1]
        /\ TreeOf(query) = TreeOf(words[1])
        /\ TreeOf(query) # Null
        /\ out = filter(items, words[1])

\* "bb OR": the tokens are the term and the operator, and the record, which
\* has no bb, is rejected as it is by bb alone
C22_Witness ==
    /\ pc = "composed" /\ shape = "or_after"
    /\ toks = <<PlainTerm(words[1]), OpToken("OR")>>
    /\ ~each[1] /\ ~verdict /\ out = <<>>

GroupTokens ==
    << [type |-> "LPAREN"], PlainTerm(words[1]), [type |-> "OR"], PlainTerm(words[2]),
       [type |-> "RPAREN"] >>

\* C10 as stated: for non-empty plain words of any length "(a OR b) -c"
\* tokenizes to LPAREN TERM(a) OR TERM(b) RPAREN NOT TERM(c), and filter never
\* returns a record whose haystack contains c.  NOT TERM(c) is read as either
\* a NOT token followed by TERM(c) or one TERM(c) that carries the negation.
C10_GroupThenNotTerm ==
    (pc = "composed" /\ shape = "group_not" /\ ~IsKeyword(words[1])
        /\ ~IsKeyword(words[2]) /\ ~IsKeyword(words[3])) =>
        /\ \/ toks = GroupTokens \o << [type |-> "NOT"], PlainTerm(words[3]) >>
           \/ toks = GroupTokens \o << NegatedTerm(words[3]) >>
        /\ (includes(Hay, toLowerCase(words[3])) => out = <<>>)

\* C10 amended: for plain non-keyword words, when c has at least 2 characters
\* "(a OR b) -c" tokenizes to LPAREN TERM(a) OR TERM(b) RPAREN and one TERM(c)
\* whose negated flag is set (no NOT token), and filter returns no record
\* whose haystack contains c; when c is a single character the negation is
\* deferred, no token is emitted for c, and the query selects as "a OR b".
C10_GroupThenNegatedTerm ==
    (pc = "composed" /\ shape = "group_not" /\ ~IsKeyword(words[1])
        /\ ~IsKeyword(words[2]) /\ ~IsKeyword(words[3])) =>
        IF Len(words[3]) >= 2
        THEN /\ toks = GroupTokens \o << NegatedTerm(words[3]) >>
             /\ (includes(Hay, toLowerCase(words[3])) => out = <<>>)
        ELSE /\ toks = GroupTokens
             /\ out = (IF each[1] \/ each[2] THEN items ELSE <<>>)

\* a record that matches a and contains the two-letter c: it is excluded
C10_Witness ==
    /\ pc = "composed" /\ shape = "group_not"
    /\ ~IsKeyword(words[1]) /\ ~IsKeyword(words[2])
    /\ Len(words[3]) = 2 /\ each[1]
    /\ includes(Hay, toLowerCase(words[3])) /\ out = <<>>

(***************************************************************************)
(* Properties of the parser, checked under SpecParse.                       *)
(***************************************************************************)
\* the parse run step by step ends with the tree and the cursor of parseOr
StepsAgreeWithParse ==
    pc = "parsed" => (ret = parseQueryAST(toks) /\ cursor = parseOr(toks, 0).index)

\* the parse is never starved: it runs to completion within the calling task
SpecParseFair == SpecParse /\ WF_vars(NextParse)

\* the bound on the productions entered while parsing n tokens
MaxCalls(n) == 4 * (n + 1)

\* C12: parsing a token list ends; the cursor never decreases and never passes
\* the end of the list; a production entered while a token is available has
\* consumed at least one token when it returns; every turn of a loop of parseOr
\* or parseAnd has consumed at least one token when the loop comes round; and
\* the productions entered number at most 4 per token plus 4.
C12_ParseProgress ==
    /\ [][ /\ cursor' >= cursor
           /\ cursor' <= Len(toks)
           /\ (Len(stack') < Len(stack) /\ Top.entry < Len(toks)) => cursor' > Top.entry
           /\ Top.at = "right" => cursor > Top.from
           /\ calls' <= MaxCalls(Len(toks)) ]_vars
    /\ <>(pc = "parsed")

\* the parse of  ) OR OR (  has ended with every token consumed
C12_Witness ==
    /\ pc = "parsed"
    /\ toks = <<OpToken("RPAREN"), OpToken("OR"), OpToken("OR"), OpToken("LPAREN")>>
    /\ cursor = 4 /\ calls > 4 /\ ret = Null

RECURSIVE TermLeaves(_)
\* the tokens at the TERM leaves of a tree, left to right
TermLeaves(node) ==
    IF node.kind = "NULL" THEN <<>>
    ELSE IF node.kind = "TERM" THEN <<node.token>>
    ELSE IF node.kind = "NOT" THEN TermLeaves(node.operand)
    ELSE TermLeaves(node.left) \o TermLeaves(node.right)

\* token i is a TERM shorter than 2 characters that directly follows a NOT:
\* the operand of a negation that parseUnary drops
IsDroppedOperand(tokens, i) ==
    /\ tokens[i].type = "TERM" /\ Len(tokens[i].value) < 2
    /\ i > 1 /\ tokens[i - 1].type = "NOT"

RECURSIVE KeptTermsFrom(_, _)
\* the TERM tokens from position i on that are not such operands, in order
KeptTermsFrom(tokens, i) ==
    IF i > Len(tokens) THEN <<>>
    ELSE (IF tokens[i].type = "TERM" /\ ~IsDroppedOperand(tokens, i)
          THEN <<tokens[i]>> ELSE <<>>) \o KeptTermsFrom(tokens, i + 1)

HasNoOrNoParens(tokens) ==
    \A i \in 1..Len(tokens) : tokens[i].type \notin {"OR", "LPAREN", "RPAREN"}

\* C19: wherever parseAnd is entered, it returns with the cursor at an OR, at
\* an RPAREN or at the end of the tokens; and the tree of a token list without
\* OR and without parentheses has at its leaves every TERM token that is not
\* the operand of a dropped negation.
C19_AndChainReadsEveryOperand ==
    pc = "parsed" =>
        /\ \A i \in 0..Len(toks) :
               PeekType(toks, parseAnd(toks, i).index) \in {"OR", "RPAREN", "NONE"}
        /\ HasNoOrNoParens(toks) => TermLeaves(ret) = KeptTermsFrom(toks, 1)

\* C20: the tree of a token list that holds a TERM token which is not the
\* operand of a dropped negation is not null.
C20_UsableTermGivesTree ==
    (pc = "parsed" /\ KeptTermsFrom(toks, 1) # <<>>) => ret # Null

(***************************************************************************)
(* Properties of the tokenizer, checked under SpecScan.                     *)
(***************************************************************************)
\* the scan run lexeme by lexeme ends with the tokens of tokenizeQuery
ScanAgreesWithTokenize ==
    pc = "scanned" => toks = tokenizeQuery(query)

\* the lexeme the scan visits next, and that lexeme without its leading dashes
Lexeme == Head(rest)

Undashed == DropFirst(Lexeme, LeadingCount(Lexeme, {"-"}))

\* the scan is about to visit a lexeme
Visiting == pc = "scanning" /\ rest # <<>>

\* the operator token of a keyword
KeywordToken(w) ==
    OpToken(CASE toLowerCase(w) = <<"a","n","d">> -> "AND"
              [] toLowerCase(w) = <<"o","r">> -> "OR"
              [] toLowerCase(w) = <<"n","o","t">> -> "NOT")

Band == [Blank EXCEPT !.filename = <<"b","a","n","d",".","p","n","g">>]

\* C15: a lexeme that is and, or, not (in any letter case) under zero or more
\* dashes is emitted as the operator token when it has no dash and no negation
\* is pending, and otherwise as one TERM token whose negated flag is set and
\* whose value is the lowercased word; "-AND" selects the records without the
\* text and.
C15_NegatedKeywordIsTerm ==
    /\ [][ (Visiting /\ IsKeyword(Undashed)) =>
               toks' = toks \o
                   <<IF Undashed = Lexeme /\ ~pendingNegation
                     THEN KeywordToken(Undashed)
                     ELSE TermToken(toLowerCase(Undashed), FALSE, TRUE)>> ]_vars
    /\ [](pc = "scanned" /\ query = <<"-","A","N","D">> =>
             /\ toks = <<TermToken(<<"a","n","d">>, FALSE, TRUE)>>
             /\ \A r \in RecordPool \cup {Band} :
                    matches(r, query) = ~includes(buildHaystack(r), <<"a","n","d">>)
             /\ ~matches(Band, query))

\* a dash is pending when or is scanned: the scan of  - or  ends with the one
\* negated term or
C15_Witness ==
    /\ pc = "scanned"
    /\ query = <<"-"," ","o","r">>
    /\ toks = <<TermToken(<<"o","r">>, FALSE, TRUE)>>

\* the tokens the visit of a lexeme appended
Emitted == SubSeq(toks', Len(toks) + 1, Len(toks'))

\* the pending negation is kept for the lexeme after this one, nothing emitted
Carried == pendingNegation' /\ toks' = toks

\* the negation lands on the one TERM this lexeme emits
AppliedToTerm ==
    /\ ~pendingNegation'
    /\ Len(Emitted) = 1 /\ Emitted[1].type = "TERM" /\ Emitted[1].negated

\* the negation lands on the opening parenthesis, as one NOT before it
AppliedToGroup ==
    /\ ~pendingNegation'
    /\ Emitted = <<OpToken("NOT"), OpToken("LPAREN")>>

\* the negation is lost on a closing parenthesis
DiscardedAtRParen ==
    /\ Lexeme = <<")">>
    /\ ~pendingNegation'
    /\ Emitted = <<OpToken("RPAREN")>>

\* a negation is left pending only by a negated lexeme that emits nothing, and
\* a lexeme that is not negated emits no negated TERM
NegationOnlyFromDash ==
    /\ pendingNegation' => ((pendingNegation \/ Undashed # Lexeme) /\ toks' = toks)
    /\ (~pendingNegation /\ Undashed = Lexeme) =>
           \A k \in 1..Len(Emitted) : Emitted[k].type = "TERM" => ~Emitted[k].negated

DashThenTerm == { <<"-"," ","b","c">>, <<"-","a"," ","b","c">> }

DashThenTermTokens ==
    (pc = "scanned" /\ query \in DashThenTerm) =>
        toks = <<TermToken(<<"b","c">>, FALSE, TRUE)>>

\* C16 as stated: when a negation is pending, the lexeme visited either
\* carries it on (emitting nothing), or emits one TERM with negated set, or is
\* an opening parenthesis emitted after one NOT; after it is applied nothing
\* is pending; "- bc" and "-a bc" give the single token TERM(bc, negated).
C16_PendingNegationIsApplied ==
    /\ [][ Visiting =>
              /\ pendingNegation => (Carried \/ AppliedToTerm \/ AppliedToGroup)
              /\ NegationOnlyFromDash ]_vars
    /\ []DashThenTermTokens

\* C16 amended: as stated, except that a closing parenthesis visited while a
\* negation is pending is emitted as RPAREN and the negation is discarded.
C16_PendingNegationIsAppliedOrDiscarded ==
    /\ [][ Visiting =>
              /\ pendingNegation =>
                     (Carried \/ AppliedToTerm \/ AppliedToGroup \/ DiscardedAtRParen)
              /\ NegationOnlyFromDash ]_vars
    /\ []DashThenTermTokens

\* the scan of "-a bc" has ended: the negation of the unemitted a went to bc
C16_Witness ==
    /\ pc = "scanned"
    /\ query = <<"-","a"," ","b","c">>
    /\ toks = <<TermToken(<<"b","c">>, FALSE, TRUE)>>
    /\ ~pendingNegation

\* the 1-based position of the quote that closes the quote at position j: the
\* next occurrence of the same character, 0 when there is none
ClosingQuote(q, j) ==
    LET hits == {k \in (j + 1)..Len(q) : q[k] = q[j]}
    IN  IF hits = {} THEN 0 ELSE CHOOSE k \in hits : \A m \in hits : k <= m

RECURSIVE EnclosedFrom(_, _)
\* the positions from p on that lie between a quote and the quote closing it,
\* the quotes of the string being paired from left to right
EnclosedFrom(q, p) ==
    IF p > Len(q) THEN {}
    ELSE IF q[p] \in {"'", "\""} /\ ClosingQuote(q, p) # 0
        THEN ((p + 1)..(ClosingQuote(q, p) - 1)) \cup EnclosedFrom(q, ClosingQuote(q, p) + 1)
    ELSE EnclosedFrom(q, p + 1)

\* how many c characters of q lie outside every pair of quotes
Unquoted(q, c) == Cardinality({i \in 1..Len(q) : q[i] = c} \ EnclosedFrom(q, 1))

TokensOfType(tokens, type) == Cardinality({k \in 1..Len(tokens) : tokens[k].type = type})

\* C17: no "(" or ")" that lies between a quote and its closing quote gives
\* an LPAREN or RPAREN token: the tokens of a query hold at most one LPAREN
\* for each "(" outside the quotes and one RPAREN for each ")" outside them.
C17_QuotedParensAreText ==
    pc = "scanned" =>
        /\ TokensOfType(toks, "LPAREN") <= Unquoted(query, "(")
        /\ TokensOfType(toks, "RPAREN") <= Unquoted(query, ")")

\* the text between the quotes of a quoted lexeme
InnerText(tok) == SubSeq(tok, 2, Len(tok) - 1)

\* C18: every TERM token among the tokens has a value that is not empty and
\* is in lower case, at every point of the scan of every query; and the visit
\* of a lexeme that is a quoted span (under zero or more dashes) with nothing
\* or only whitespace between its quotes emits no token.
C18_TermsHaveText ==
    /\ [](\A k \in 1..Len(toks) :
             toks[k].type = "TERM" =>
                 (toks[k].value # <<>> /\ toks[k].value = toLowerCase(toks[k].value)))
    /\ [][ (Visiting /\ IsQuoted(Undashed) /\ IsBlank(InnerText(Undashed))) =>
               toks' = toks ]_vars

\* the scan of  ' ' AND  has ended: the quoted blank gave no token and the
\* keyword an operator, and no TERM exists
C18_Witness ==
    /\ pc = "scanned"
    /\ query = <<"'"," ","'","A","N","D">>
    /\ toks = <<OpToken("AND")>>

RECURSIVE NotTerms(_)
\* the tokens of the TERM nodes that are directly the operand of a NOT node
NotTerms(node) ==
    IF node.kind = "NOT" THEN
        (IF node.operand.kind = "TERM" THEN {node.operand.token} ELSE {})
            \cup NotTerms(node.operand)
    ELSE IF node.kind \in {"AND", "OR"} THEN NotTerms(node.left) \cup NotTerms(node.right)
    ELSE {}

\* C21: at every point of the scan no negated TERM token is shorter than 2
\* characters; in the tree of the tokens of a scanned query every TERM that is
\* directly the operand of a NOT node has at least 2 characters; and wherever
\* a NOT token stands, parseUnary there gives null when parseUnary after it
\* gives null or a bare TERM shorter than 2 characters, a NOT node otherwise.
C21_NegatedTermsHaveTwoChars ==
    /\ \A k \in 1..Len(toks) :
           (toks[k].type = "TERM" /\ toks[k].negated) => Len(toks[k].value) >= 2
    /\ pc = "scanned" =>
           /\ \A t \in NotTerms(parseQueryAST(toks)) : Len(t.value) >= 2
           /\ \A k \in 1..Len(toks) : toks[k].type = "NOT" =>
                  LET operand == parseUnary(toks, k).node
                      whole == parseUnary(toks, k - 1).node
                  IN  IF operand.kind = "NULL"
                         \/ (operand.kind = "TERM" /\ Len(operand.token.value) < 2)
                      THEN whole = Null
                      ELSE whole = NotNode(operand)

\* "Not a": the NOT token is followed by the one-letter term a and the tree
\* is null
C21_Witness ==
    /\ pc = "scanned"
    /\ query = <<"N","o","t"," ","a">>
    /\ toks = <<OpToken("NOT"), TermToken(<<"a">>, FALSE, FALSE)>>
    /\ parseUnary(toks, 1).node = TermNode(toks[2])
    /\ parseQueryAST(toks) = Null

\* the records the queries of the scan are tried on
Probe ==
    << [Blank EXCEPT !.filename = <<"a","b","c",".","p","n","g">>],
       [Blank EXCEPT !.filename = <<"b","c",".","p","n","g">>, !.display_name = <<"Z">>],
       [Blank EXCEPT !.filename = <<"a",".","p","n","g">>],
       [Blank EXCEPT !.tags = << <<"o","r">> >>] >>

UnclosedExample == <<"(","a"," ","O","R"," ","b">>

\* C23: a query that ends with closing parentheses and the same query with
\* some or all of them removed have the same tokens up to the RPAREN tokens
\* removed, the same tree and the same filter result; "(a OR b" behaves like
\* "(a OR b)".  The parentheses that close an open group are among the cases.
C23_MissingClosingParenTolerated ==
    /\ (pc = "scanned" /\ query # <<>> /\ query[Len(query)] = ")") =>
           \A j \in 1..TrailingCount(query, {")"}) :
               LET shorter == DropLast(query, j)
               IN  /\ tokenizeQuery(shorter) \o Repeat("RPAREN", j) = toks
                   /\ parseQueryAST(tokenizeQuery(shorter)) = parseQueryAST(toks)
                   /\ filter(Probe, shorter) = filter(Probe, query)
    /\ (pc = "scanned" /\ query # <<>> /\ query[Len(query)] = ")") =>
           /\ TreeOf(UnclosedExample) = TreeOf(UnclosedExample \o <<")">>)
           /\ TreeOf(UnclosedExample).kind = "OR"
           /\ filter(Probe, UnclosedExample) = filter(Probe, UnclosedExample \o <<")">>)

\* "(bc)": the group is closed by the last character; without it the tree is
\* still the term bc and the same two records are returned
C23_Witness ==
    /\ pc = "scanned"
    /\ query = <<"(","b","c",")">>
    /\ toks = <<OpToken("LPAREN"), TermToken(<<"b","c">>, FALSE, FALSE), OpToken("RPAREN")>>
    /\ parseQueryAST(tokenizeQuery(<<"(","b","c">>)) = TermNode(toks[2])
    /\ Len(filter(Probe, <<"(","b","c">>)) = 2

(***************************************************************************)
(* Properties of the ranking, checked under SpecRank.                       *)
(***************************************************************************)
\* the file name root as the specification words it: the lowercased file name
\* without its last extension
RootOf(r) ==
    LET f == toLowerCase(r.filename)
        dots == {i \in 1..Len(f) : f[i] = "."}
    IN  IF \E i \in dots : i < Len(f)
        THEN SubSeq(f, 1, (CHOOSE i \in dots : \A j \in dots : j <= i) - 1)
        ELSE f

\* the term searched for
Sought == toLowerCase(words[1])

\* C14: for a query of one positive term t, plain or quoted, every returned
\* record whose file name root equals t stands before every returned record
\* whose root differs; the first kind scores 2000, the second at most 1600.
C14_ExactRootFirst ==
    pc = "ranked" =>
        \A i, j \in 1..Len(out) :
            (RootOf(out[i]) = Sought /\ RootOf(out[j]) # Sought) =>
                /\ i < j
                /\ scoreMatch(out[i], TreeOf(query)) = 2000
                /\ scoreMatch(out[j], TreeOf(query)) <= 1600

\* the record named ab.png, shown as Zz, returned before the record whose
\* display name is the term itself and whose root is abc, against the order
\* of the input and of the display keys
C14_Witness ==
    /\ pc = "ranked" /\ Len(items) = 2 /\ Len(out) = 2
    /\ out[1] = items[2] /\ out[2] = items[1]
    /\ RootOf(out[1]) = Sought /\ RootOf(out[2]) # Sought
    /\ KeyOf(out[1]) = <<"Z","z">> /\ toLowerCase(KeyOf(out[2])) = Sought
    /\ scoreMatch(out[2], TreeOf(query)) = 1600

(***************************************************************************)
(* Properties of the arrays, checked under SpecHeap.                        *)
(***************************************************************************)
\* the list filter returns by reference holds what filter returns by value
HeapAgreesWithFilter ==
    pc = "filtered" => out = filter(items, query)

\* C13: a call of filter or matches changes no array that existed before it,
\* so the input list keeps its length, its elements with all their fields and
\* its order; when the query has a tree the list returned is a new one and not
\* the input list; and a later call with the same list and query returns the
\* same records, whatever the earlier call left behind.
C13_InputsUntouched ==
    /\ [][ /\ Len(heap') >= Len(heap)
           /\ \A r \in 1..Len(heap) : heap'[r] = heap[r]
           /\ heap'[given] = items
           /\ (pc' \in {"filtered", "refiltered"} /\ HasTree(query)) =>
                  (result' # given /\ result' > Len(heap)) ]_vars
    /\ [](pc = "refiltered" => again = out)
    /\ [](pc = "matched" => Len(verdicts) = Len(items))

\* two records that filter returned in the other order: the input list is as
\* it was and the result is another list
C13_Witness ==
    /\ pc = "filtered" /\ HasTree(query)
    /\ Len(items) = 2 /\ items[1] # items[2]
    /\ heap[given] = items
    /\ result # given
    /\ heap[result] = <<items[2], items[1]>>

(***************************************************************************)
(* Properties of the scorer's terms, checked under SpecParse.               *)
(***************************************************************************)
RECURSIVE LeavesUnder(_, _)
\* the TERM leaves of a tree from left to right, each with the number of NOT
\* nodes above it
LeavesUnder(node, nots) ==
    IF node.kind = "TERM" THEN << [token |-> node.token, nots |-> nots] >>
    ELSE IF node.kind = "NOT" THEN LeavesUnder(node.operand, nots + 1)
    ELSE IF node.kind \in {"AND", "OR"} THEN
        LeavesUnder(node.left, nots) \o LeavesUnder(node.right, nots)
    ELSE <<>>

\* the tokens of the leaves under an even number of NOT nodes
UnderEvenNots(node) ==
    LET even == SelectSeq(LeavesUnder(node, 0), LAMBDA l : l.nots % 2 = 0)
    IN  [i \in 1..Len(even) |-> even[i].token]

\* what filter returns for the probe records once the tree is there
ProbeResult(ast) == Ranked(Filtered(Probe, ast), ast)

\* C24: the terms the scorer collects from the tree are the TERM tokens under
\* an even number of NOT nodes, and the score is the sum over them; when there
\* is none, every record scores 0 and the records returned are in ascending
\* order of their display keys.
C24_PositiveTermsAreEvenlyNegated ==
    (pc = "parsed" /\ ret # Null) =>
        /\ collectPositiveTerms(ret, FALSE) = UnderEvenNots(ret)
        /\ \A k \in 1..Len(Probe) :
               scoreMatch(Probe[k], ret) = SumScores(Probe[k], UnderEvenNots(ret))
        /\ UnderEvenNots(ret) = <<>> =>
               /\ \A k \in 1..Len(Probe) : scoreMatch(Probe[k], ret) = 0
               /\ \A i, j \in 1..Len(ProbeResult(ret)) :
                      i < j => CaseInsensitiveLE(KeyOf(ProbeResult(ret)[i]),
                                                 KeyOf(ProbeResult(ret)[j]))

\* the tokens of "NOT -ab": the term lies under two NOT nodes, is collected
\* and gives abc.png the points of a file name that begins with it
C24_Witness ==
    /\ pc = "parsed"
    /\ toks = <<OpToken("NOT"), TermToken(<<"a","b">>, FALSE, TRUE)>>
    /\ ret = NotNode(NotNode(TermNode(toks[2])))
    /\ collectPositiveTerms(ret, FALSE) = <<toks[2]>>
    /\ scoreMatch(Probe[1], ret) = 900

\* records that get points for ab, for x, or for both
TermProbe ==
    << [Blank EXCEPT !.filename = <<"a","b",".","p","n","g">>],
       [Blank EXCEPT !.filename = <<"x","-","a","b",".","p","n","g">>],
       [Blank EXCEPT !.display_name = <<"A","b","x">>],
       [Blank EXCEPT !.tags = << <<"x">> >>, !.path = <<"a","b">>] >>

\* a further positive term
FurtherTerms == { TermToken(<<"a","b">>, FALSE, FALSE), TermToken(<<"x">>, FALSE, FALSE) }

RECURSIVE PointsPerAppearance(_, _, _)
\* over the distinct tokens of the set, appearances in pos times the points
PointsPerAppearance(distinct, r, pos) ==
    IF distinct = {} THEN 0
    ELSE LET t == CHOOSE t \in distinct : TRUE
         IN  Count(pos, t) * TermScore(r, t) + PointsPerAppearance(distinct \ {t}, r, pos)

\* the score of a record is the sum over the positive TERM tokens of the tree
\* of the points of each, a token that appears several times counted once per
\* appearance; the points of a term are between 0 and 2000 and the score
\* between 0 and 2000 times the number of positive terms
ScoreIsSumOfTerms ==
    pc = "parsed" =>
        LET pos == UnderEvenNots(ret)
        IN  \A k \in 1..Len(TermProbe) :
                LET r == TermProbe[k]
                    score == scoreMatch(r, ret)
                IN  /\ score = PointsPerAppearance(Range(pos), r, pos)
                    /\ \A i \in 1..Len(pos) :
                           TermScore(r, pos[i]) >= 0 /\ TermScore(r, pos[i]) <= 2000
                    /\ score >= 0 /\ score <= 2000 * Len(pos)

\* a further positive term written after the tokens does not lower the score
AppendedTermKeepsScore ==
    pc = "parsed" =>
        \A k \in 1..Len(TermProbe), t \in FurtherTerms :
            scoreMatch(TermProbe[k], parseQueryAST(toks \o <<t>>))
                >= scoreMatch(TermProbe[k], ret)

\* C27: the score is the sum of the points of the positive terms, each between
\* 0 and 2000, and the score for the tokens with a further positive term,
\* written after them or before them, is not lower than the score for the
\* tokens alone.
C27_ScoreIsSumAndNeverLowered ==
    /\ ScoreIsSumOfTerms
    /\ AppendedTermKeepsScore
    /\ pc = "parsed" =>
           \A k \in 1..Len(TermProbe), t \in FurtherTerms :
               scoreMatch(TermProbe[k], parseQueryAST(<<t>> \o toks))
                   >= scoreMatch(TermProbe[k], ret)

(***************************************************************************)
(* Properties of the scorer, checked under SpecScore.                       *)
(***************************************************************************)
\* the record searched, the term and whether it is quoted
Scored == items[1]

Term == toLowerCase(words[1])

Quoted == shape = "quoted"

\* the four texts the scorer looks into, as the specification names them
Shown(r) == toLowerCase(IF r.display_name # <<>> THEN r.display_name ELSE r.displayName)

TagText(r) == toLowerCase(joinSpace(r.tags))

Where(r) == toLowerCase(IF r.path # <<>> THEN r.path ELSE r.file_path)

\* the 1-based position at which v first occurs in h (h contains v)
FirstAt(h, v) ==
    LET at == {i \in 1..(Len(h) - Len(v) + 1) : SubSeq(h, i, i + Len(v) - 1) = v}
    IN  CHOOSE i \in at : \A j \in at : i <= j

Contains(h, v) == \E i \in 1..(Len(h) - Len(v) + 1) : SubSeq(h, i, i + Len(v) - 1) = v

IsEdge(h, i) == i < 1 \/ i > Len(h) \/ h[i] \notin LowerSet \cup DigitSet

\* how v first occurs in h: at the start before a boundary or the end, at the
\* start otherwise, elsewhere between boundaries, or inside a word
Occurrence(h, v) ==
    LET i == FirstAt(h, v)
        after == IsEdge(h, i + Len(v))
    IN  IF i = 1 THEN (IF after THEN "prefix word" ELSE "prefix")
        ELSE IF IsEdge(h, i - 1) /\ after THEN "word"
        ELSE "inside"

\* the points of the cascade for an occurrence in the file name root
RootPoints(occurrence, exact) ==
    CASE occurrence = "prefix word" -> IF exact THEN 1200 ELSE 1100
      [] occurrence = "prefix" -> IF exact THEN 0 ELSE 900
      [] occurrence = "word" -> IF exact THEN 950 ELSE 750
      [] occurrence = "inside" -> IF exact THEN 0 ELSE 500

\* and for an occurrence in the display name
ShownPoints(occurrence, exact) ==
    CASE occurrence = "prefix word" -> IF exact THEN 560 ELSE 520
      [] occurrence = "prefix" -> IF exact THEN 0 ELSE 450
      [] occurrence = "word" -> IF exact THEN 410 ELSE 380
      [] occurrence = "inside" -> IF exact THEN 0 ELSE 280

\* the first tier of the cascade that applies to record r and term v
Cascade(r, v, exact) ==
    IF RootOf(r) = v THEN 2000
    ELSE IF Shown(r) = v THEN 1600
    ELSE IF Contains(RootOf(r), v) THEN RootPoints(Occurrence(RootOf(r), v), exact)
    ELSE IF Contains(Shown(r), v) THEN ShownPoints(Occurrence(Shown(r), v), exact)
    ELSE IF (IF exact THEN WholeWordIn(TagText(r), v) ELSE Contains(TagText(r), v))
        THEN (IF exact THEN 200 ELSE 160)
    ELSE IF Contains(Where(r), v) THEN
        (IF ~exact THEN 120
         ELSE IF Occurrence(Where(r), v) \in {"prefix word", "word"} THEN 140 ELSE 0)
    ELSE 0

\* C25: the points a record gets for a positive term are those of the first
\* tier of the cascade that applies, and no later tier is consulted.
C25_FirstTierDecides ==
    pc = "scored" =>
        /\ toks = <<TermToken(Term, Quoted, FALSE)>>
        /\ scores[1] = Cascade(Scored, Term, Quoted)

\* cab.png with the tag ab, searched for the quoted term: the file name root
\* holds ab inside a word, that tier applies and gives 0, and the tag, which
\* would give 200, is not consulted
C25_Witness ==
    /\ pc = "scored" /\ Quoted /\ Term = <<"a","b">>
    /\ RootOf(Scored) = <<"c","a","b">>
    /\ WholeWordIn(TagText(Scored), Term)
    /\ scores[1] = 0
    /\ out = items

\* the term occurs in the file name root, the display name, the tags, the path
InRoot(r) == Contains(RootOf(r), Term)

InShown(r) == Contains(Shown(r), Term)

InTags(r) == Contains(TagText(r), Term)

InPath(r) == Contains(Where(r), Term)

\* the points of another record for the term of the query
PointsOf(r) == scoreMatch(r, parseQueryAST(toks))

\* C26: a record with the term in its file name root gets at least the points
\* of a record with the term only in display name, tags or path; a record with
\* the term in its display name at least those of a record with the term only
\* in tags or path; and a record with the term in its tags at least those of a
\* record with the term only in the path.
C26_StrongerFieldNeverLower ==
    pc = "scored" =>
        \A other \in ScorePool :
            /\ (InRoot(Scored) /\ ~InRoot(other)
                    /\ (InShown(other) \/ InTags(other) \/ InPath(other)))
                  => scores[1] >= PointsOf(other)
            /\ (InShown(Scored) /\ ~InRoot(other) /\ ~InShown(other)
                    /\ (InTags(other) \/ InPath(other)))
                  => scores[1] >= PointsOf(other)
            /\ (InTags(Scored) /\ ~InRoot(other) /\ ~InShown(other) /\ ~InTags(other)
                    /\ InPath(other))
                  => scores[1] >= PointsOf(other)

\* the kind of the first occurrence of the term in a text that holds it
Kind(h) == IF h = Term THEN "equal" ELSE Occurrence(h, Term)

\* the first occurrence of the term in the text is a whole word
WholeAt(h) == Contains(h, Term) /\ Kind(h) \in {"equal", "prefix word", "word"}

\* the other record has the term in its tags or path and nowhere above
OnlyTagsOrPath(r) == ~InRoot(r) /\ ~InShown(r) /\ (InTags(r) \/ InPath(r))

OnlyPath(r) == ~InRoot(r) /\ ~InShown(r) /\ ~InTags(r) /\ InPath(r)

\* C26 amended: for an unquoted term, a record with the term in its file name
\* root gets at least 500 points and a record with the term in its display
\* name at least 280, neither fewer than a record with the term only in tags
\* or path, and a record with the term in its tags gets at least 160, not
\* fewer than a record with the term only in the path.  For a quoted term the
\* same holds when the first occurrence in the stronger field is a whole word.
\* Between file name root and display name the order holds between first
\* occurrences of the same kind.
C26_StrongerFieldWithinKind ==
    pc = "scored" =>
        \A other \in ScorePool :
            /\ (~Quoted /\ InRoot(Scored)) =>
                   /\ scores[1] >= 500
                   /\ OnlyTagsOrPath(other) => scores[1] >= PointsOf(other)
            /\ (~Quoted /\ InShown(Scored)) =>
                   /\ scores[1] >= 280
                   /\ OnlyTagsOrPath(other) => scores[1] >= PointsOf(other)
            /\ (~Quoted /\ InTags(Scored)) =>
                   /\ scores[1] >= 160
                   /\ OnlyPath(other) => scores[1] >= PointsOf(other)
            /\ (Quoted /\ WholeAt(RootOf(Scored)) /\ OnlyTagsOrPath(other))
                  => scores[1] >= PointsOf(other)
            /\ (Quoted /\ ~InRoot(Scored) /\ WholeAt(Shown(Scored)) /\ OnlyTagsOrPath(other))
                  => scores[1] >= PointsOf(other)
            /\ (Quoted /\ ~InRoot(Scored) /\ ~InShown(Scored)
                    /\ WholeWordIn(TagText(Scored), Term) /\ OnlyPath(other))
                  => scores[1] >= PointsOf(other)
            /\ (InRoot(Scored) /\ ~InRoot(other) /\ InShown(other)
                    /\ Kind(RootOf(Scored)) = Kind(Shown(other)))
                  => scores[1] >= PointsOf(other)

\* cab.png searched for the unquoted ab: 500 points for the occurrence inside
\* the root, above the 160 of a record that has ab only in its tags and
\* below the 520 of a record whose display name begins with the word ab
C26_Witness ==
    /\ pc = "scored" /\ ~Quoted /\ Term = <<"a","b">>
    /\ InRoot(Scored) /\ scores[1] = 500
    /\ \E other \in ScorePool : OnlyTagsOrPath(other) /\ PointsOf(other) = 160
    /\ \E other \in ScorePool : ~InRoot(other) /\ InShown(other) /\ PointsOf(other) = 520

\* the text written for a field that may be missing where it is concatenated
Written(x) == IF x = <<>> THEN <<"u","n","d","e","f","i","n","e","d">> ELSE x

Sp == <<" ">>

RECURSIVE SpacedFrom(_, _)
SpacedFrom(tags, k) ==
    IF k > Len(tags) THEN <<>> ELSE Sp \o tags[k] \o SpacedFrom(tags, k + 1)

SpacedTags(tags) == IF tags = <<>> THEN <<>> ELSE tags[1] \o SpacedFrom(tags, 2)

Composition(r) ==
    r.display_name \o Sp \o r.filename \o Sp \o r.path \o Sp
        \o <<"s">> \o Written(r.scale) \o <<"x">> \o Sp
        \o Written(r.grid_width) \o <<"x">> \o Written(r.grid_height) \o Sp
        \o r.size \o Sp \o r.creature_type \o Sp \o r.variant \o Sp \o r.source \o Sp
        \o r.tier \o Sp \o r.color_variant \o Sp \o SpacedTags(r.tags)

FullHaystack ==
    <<"d","n"," ","f",".","p","n","g"," ","p","/","q"," ","s","2","x"," ",
      "3","x","4"," ","s","z"," ","c","t"," ","v","r"," ","s","r"," ","t","r"," ",
      "c","v"," ","t","1"," ","t","2">>

SUndefinedX == <<"s","u","n","d","e","f","i","n","e","d","x">>

\* C28: the haystack of a record is the lowercased concatenation, joined by
\* single spaces and in this order, of display_name, filename, path, "s" + scale
\* + "x", grid_width + "x" + grid_height, size, creature_type, variant, source,
\* tier, color_variant and the tags; a missing scale or grid field is written
\* "undefined", so a record without a scale has "sundefinedx" in its haystack and
\* the plain query "undefined" returns it.
C28_HaystackComposition ==
    pc = "scored" =>
        /\ Hay = toLowerCase(Composition(Scored))
        /\ buildHaystack(FullRecord) = FullHaystack
        /\ Scored.scale = <<>> =>
               /\ Contains(Hay, SUndefinedX)
               /\ (Term = Written(<<>>) /\ ~Quoted) =>
                      verdict /\ out = items /\ matches(Scored, Written(<<>>))

C28_Witness ==
    /\ pc = "scored"
    /\ Term = Written(<<>>) /\ ~Quoted
    /\ Scored.scale = <<>> /\ Scored.grid_width = <<>>
    /\ \A f \in DOMAIN Scored : f # "tags" => ~Contains(toLowerCase(Scored[f]), Term)
    /\ \A k \in 1..Len(Scored.tags) : ~Contains(toLowerCase(Scored.tags[k]), Term)
    /\ verdict /\ out = items /\ scores[1] = 0

\* the record with displayName, file_path and name all set to the text v
WithUnread(r, v) == [r EXCEPT !.displayName = v, !.file_path = v, !.name = v]

InUnread(r) ==
    \/ Contains(toLowerCase(r.displayName), Term)
    \/ Contains(toLowerCase(r.file_path), Term)

\* C29: the match decision does not depend on displayName, file_path or name:
\* it is the same for the record with these fields emptied or set to the term,
\* and a term that occurs in displayName or file_path but not in the haystack
\* leaves the record out of the result, whatever the scorer gives it; the
\* scorer and the tie-break key do read these fields.
C29_MatchReadsOnlyHaystackFields ==
    pc = "scored" =>
        /\ \A v \in {<<>>, words[1]} :
               /\ matches(WithUnread(Scored, v), query) = verdict
               /\ (filter(<<WithUnread(Scored, v)>>, query) = <<>>) = (out = <<>>)
        /\ (InUnread(Scored) /\ ~Contains(Hay, Term)) => ~verdict /\ out = <<>>
        /\ Scored.display_name = <<>> =>
               displayKey(WithUnread(Scored, words[1])) = words[1]
        /\ (Scored.display_name = <<>> /\ Scored.filename = <<>> /\ Scored.path = <<>>
                /\ Scored.tags = <<>>) =>
               scoreMatch(WithUnread(Scored, words[1]), parseQueryAST(toks)) > 0

C29_Witness ==
    /\ pc = "scored"
    /\ InUnread(Scored) /\ ~Contains(Hay, Term)
    /\ scores[1] > 0
    /\ ~verdict /\ out = <<>>

(***************************************************************************)
(* Properties of a quoted span behind dashes, checked under SpecQuote.      *)
(***************************************************************************)
Dashes == words[1]
Spacer == words[2]
QuoteChar == words[3]
Inner == words[4]

Breaks == WhiteSpace \cup {"(", ")"}

\* the text between the quotes holds whitespace or a parenthesis
Broken(text) == \E k \in 1..Len(text) : text[k] \in Breaks

\* the text up to its first whitespace or parenthesis
UpToBreak(text) == SubSeq(text, 1, LeadingCount(text, {x \in Range(text) : x \notin Breaks}))

BigCat == <<"b","i","g"," ","c","a","t">>

\* C30: a query made of dashes directly followed by a quoted text that holds
\* whitespace or a parenthesis is split there by the lexeme scan: its first
\* lexeme is the dashes, the quote and the text up to the break, and no exact
\* term is among its tokens; -'big cat' gives the negated term 'big and the
\* term cat', neither exact.  Where the quote starts a lexeme (no dash, or a
\* space after the dashes) the tokens are the one exact term of the trimmed
\* text, negated when dashes are written; - 'big cat' gives the negated exact
\* term big cat.
C30_QuoteOnlyAtLexemeStart ==
    pc = "scanned" =>
        /\ (Dashes # <<>> /\ Spacer = <<>> /\ Broken(Inner)) =>
               /\ \A k \in 1..Len(toks) : toks[k].type = "TERM" => ~toks[k].exact
               /\ Head(MatchAll(query, 0)) = Dashes \o QuoteChar \o UpToBreak(Inner)
        /\ (Dashes # <<>> /\ Spacer = <<>> /\ Inner = BigCat) =>
               toks = <<TermToken(QuoteChar \o <<"b","i","g">>, FALSE, TRUE),
                        TermToken(<<"c","a","t">> \o QuoteChar, FALSE, FALSE)>>
        /\ ((Dashes = <<>> \/ Spacer # <<>>) /\ ~IsBlank(Inner)) =>
               toks = IF Dashes # <<>> /\ Len(trim(Inner)) < 2 THEN <<>>
                      ELSE <<TermToken(toLowerCase(trim(Inner)), TRUE, Dashes # <<>>)>>

\* the scan of  -'big cat'  has ended with two terms that are not exact
C30_Witness ==
    /\ pc = "scanned"
    /\ query = <<"-","'">> \o BigCat \o <<"'">>
    /\ toks = <<TermToken(<<"'","b","i","g">>, FALSE, TRUE),
                TermToken(<<"c","a","t","'">>, FALSE, FALSE)>>

====
